---- MODULE Spec2Model ----
(***************************************************************************)
(* A model of the vehicle link layer of the ground control station:       *)
(* gcs/comms/mavlink_manager.py (class MAVLinkManager) with the parts of   *)
(* gcs/config.py and gcs/models/mission.py it uses.                        *)
(*                                                                         *)
(* Specifications:                                                         *)
(*   SpecUpload    upload_mission (the MAVLink mission upload handshake)   *)
(*   SpecDownload  download_mission                                        *)
(*   SpecConn      connect_* / disconnect_all / start-stop simulation and  *)
(*                 the receiver threads                                    *)
(*   SpecRecv      the receiver loop draining registered connections and   *)
(*                 the message handlers                                    *)
(*   SpecCmd       set_mode                                                *)
(*   SpecRound     a mission list through upload and download              *)
(*   SpecAuto      the simulator flying an uploaded mission in AUTO        *)
(*   SpecSim       the simulator under commands, missions and the swarm    *)
(*   SpecOps       quick_fly, arm and rtl_all over SITL and hardware links *)
(*   SpecAlt       change_altitude and set_mode                            *)
(*   SpecRace      an upload waiting for its answer beside the receiver    *)
(*   SpecCalls     commands and transfers on a fresh or simulating manager *)
(*   SpecKind      connect_sitl and set_mode with detected vehicle kinds   *)
(*   SpecMission   the simulator passing waypoints and launch points       *)
(*   SpecChick     chick releases across simulation restarts               *)
(*   SpecGoto      the simulator flying a goto in GUIDED, to scale         *)
(* Every specification constrains all variables; the variables of the      *)
(* parts it does not exercise stay at their initial values.                *)
(***************************************************************************)
EXTENDS Integers, Sequences, FiniteSets, TLC

\* ------------------------------------------------------------------ bounds
\* longest waypoint list handed to upload_mission
MaxWps == 2
\* largest item count a vehicle announces in download_mission
MaxCount == 3
\* transport objects created by connect_* calls in one run
MaxTransports == 2
\* receiver threads started in one run
MaxThreads == 2
\* messages waiting on one transport
MaxInbox == 2
\* command calls and simulator ticks in one run
MaxCalls == 3
\* how far the clock runs, in 5 s windows
MaxTime == 1
\* messages arriving on the transports in one run
MaxMsgs == 3
\* half the side of the area simulated flights stay in, in cells
Arena == 9

\* ------------------------------------------------------- configuration
\* config.py SWARM_CONFIG: the fleet (bird1 carries chick1.1)
Vehicles == {"bird1", "chick1.1"}

\* config.py get_vehicle_info(vid).get("type", ...)
ConfigType(v) == IF v = "bird1" THEN "plane" ELSE "copter"

\* SWARM_CONFIG["birds"][0]["id"]
FirstBird == "bird1"

\* mission.py WaypointType
WaypointTypes == {"TAKEOFF", "WAYPOINT", "LOITER", "LOITER_TIME",
                  "LAUNCH_CHICK", "RTL", "LAND", "TARGET"}

\* MAV_MISSION_ACCEPTED (mavlink enum MAV_MISSION_RESULT)
MAV_MISSION_ACCEPTED == 0
MAV_MISSION_ERROR == 1

None == "None"
\* the None of a field that otherwise holds a transport / a thread
NoTransport == 0
NoThread == 0

\* ------------------------------------------------------------ variables
VARIABLES
  \* ---- MAVLinkManager fields
  simulation_mode,     \* self._simulation_mode
  conn_mode,           \* self._mode: "simulation" | "sitl" | "hardware"
  sim_attrs,           \* the _sim_* attributes exist (start_simulation ran)
  sim_timer_active,    \* self._sim_timer is running
  connections,         \* self._connections: vehicle id -> transport
  vehicle_types,       \* self._vehicle_types: vehicle id -> "plane"|"copter"|"unknown"
  telemetry,           \* self._telemetry: vehicle id -> [mode, armed, last_heartbeat]
  mlrs_port,           \* self._mlrs_port: transport or None
  backup_connection,   \* self._backup_connection: transport or None
  receiver_running,    \* self._receiver_running
  receiver_thread,     \* self._receiver_thread: thread id or None
  sim_missions,        \* self._sim_missions: vehicle id -> waypoint list
  sim_current_wp,      \* self._sim_current_wp: vehicle id -> index
  \* ---- environment: transports, threads, clock
  transports,          \* transport id -> "open" | "closed" (objects created so far)
  inbox,               \* transport id -> messages waiting to be read
  faulty,              \* transports whose recv_match raises
  streams,             \* transports on which data streams were requested
  threads,             \* thread id -> "check" | "sweep" | "dead" (threads started so far)
  rx_todo,             \* thread id -> rest of the sweep's list(self._connections.items())
  rx_read,             \* thread id -> transports read in the current/last sweep
  rx_snap,             \* thread id -> transports registered when the sweep began
  now,                 \* clock, in units of the 5 s heartbeat window
  \* ---- caller position and observation
  main_pc,             \* "idle" | "join" (inside disconnect_all)
  last_call,           \* [op, ok]: the last call that returned
  conn_shown,          \* vehicle id -> the last connection_changed value emitted for it
  signals,             \* the other notifications raised: sequence of [sig, vid, val]
  handled,             \* transport id -> messages handed to _handle_mavlink_message
  last_hb,             \* vehicle id -> the last heartbeat handled for it
  arrived,             \* messages that have arrived on the transports so far
  \* ---- upload_mission
  up_pc, up_vid, up_wps, up_items, up_i, up_tx, up_rx, up_result,
  \* ---- download_mission
  dl_pc, dl_vid, dl_count, dl_i, dl_tx, dl_rx, dl_mission, dl_result,
  \* ---- set_mode
  cmd_sent,            \* commands written to transports: sequence of [vid, cmd, arg]
  ncalls,
  \* ---- flight simulation and swarm tracking
  sim_nav,             \* vehicle id -> [x, y, alt, heading, groundspeed] of the simulated
                       \* telemetry record: cells of 10 m east / north of the start
                       \* position, decimetres, units of 1.5 degree, m/s
  sim_goto_target,     \* self._sim_goto_target: vehicle id -> [x, y, alt]
  sim_target_alt,      \* self._sim_target_alt: vehicle id -> decimetres
  sim_home,            \* self._sim_home: vehicle id -> <<x, y>>
  sim_loiter_center,   \* self._sim_loiter_center: vehicle id -> <<x, y>>
  sim_loiter_angle,    \* self._sim_loiter_angle: vehicle id -> orbit angle
  chicks_attached,     \* self._chicks_attached: chick id -> BOOLEAN
  chicks_released,     \* self._chicks_released: chick id -> BOOLEAN
  swarm_active,        \* self._swarm_active
  swarm_config         \* self._swarm_config: [formation, spacing, alt_offset]

mgrVars == <<simulation_mode, conn_mode, sim_attrs, sim_timer_active, connections,
             vehicle_types, telemetry, mlrs_port, backup_connection,
             receiver_running, receiver_thread, sim_missions, sim_current_wp>>
envVars == <<transports, inbox, faulty, streams, threads, rx_todo, rx_read, rx_snap, now>>
obsVars == <<main_pc, last_call, conn_shown, signals, handled, last_hb, arrived>>
upVars == <<up_pc, up_vid, up_wps, up_items, up_i, up_tx, up_rx, up_result>>
dlVars == <<dl_pc, dl_vid, dl_count, dl_i, dl_tx, dl_rx, dl_mission, dl_result>>
simVars == <<sim_nav, sim_goto_target, sim_target_alt, sim_home, sim_loiter_center,
             sim_loiter_angle, chicks_attached, chicks_released, swarm_active,
             swarm_config>>
cmdVars == <<cmd_sent, ncalls, simVars>>
vars == <<mgrVars, envVars, obsVars, upVars, dlVars, cmdVars>>

\* ------------------------------------------------------------- helpers
EmptyFn == [x \in {} |-> 0]

\* d[k] = val, adding k to the domain (Python: d[k] = val)
Put(d, k, val) == [x \in DOMAIN d \cup {k} |-> IF x = k THEN val ELSE d[x]]

Range(f) == {f[x] : x \in DOMAIN f}

Last(s) == s[Len(s)]

\* the element of a one-element set
The(S) == CHOOSE x \in S : TRUE

Count(s, P(_)) == Cardinality({k \in DOMAIN s : P(s[k])})

\* Python int(): truncation toward zero of a / b
Trunc(a, b) == IF a >= 0 THEN a \div b ELSE -((-a) \div b)

RECURSIVE SeqsUpTo(_, _)
SeqsUpTo(S, n) ==
  IF n = 0 THEN {<<>>}
  ELSE LET shorter == SeqsUpTo(S, n - 1)
       IN  shorter \cup {Append(s, x) : s \in {t \in shorter : Len(t) = n - 1}, x \in S}

\* ------------------------------------------------------- initial states
\* self._swarm_config = None
NoSwarmConfig == [formation |-> None, spacing |-> 0, alt_offset |-> 0]

\* __init__: no simulation state yet, swarm tracking off
SimFresh ==
  /\ sim_nav = EmptyFn
  /\ sim_goto_target = EmptyFn
  /\ sim_target_alt = EmptyFn
  /\ sim_home = EmptyFn
  /\ sim_loiter_center = EmptyFn
  /\ sim_loiter_angle = EmptyFn
  /\ chicks_attached = EmptyFn
  /\ chicks_released = EmptyFn
  /\ swarm_active = FALSE
  /\ swarm_config = NoSwarmConfig

\* config.py get_carrier_for_chick
Carrier(v) == IF v = "chick1.1" THEN "bird1" ELSE None

Chicks == {v \in Vehicles : Carrier(v) # None}

\* config.py PERFORMANCE_PROFILES: speeds in m/s; climb and descent in
\* decimetres per 0.1 s tick; loiter radius in cells; turn in heading units
\* (1.5 degree) per 0.1 s tick
Perf(vehicle_type) ==
  IF vehicle_type = "plane"
  THEN [cruise_speed_ms |-> 18, max_speed_ms |-> 25, min_speed_ms |-> 12,
        loiter_speed_ms |-> 18, swarm_track_speed_ms |-> 18,
        climb_rate |-> 3, descent_rate |-> 5, loiter_radius |-> 8, turn_per_tick |-> 1]
  ELSE [cruise_speed_ms |-> 22, max_speed_ms |-> 35, min_speed_ms |-> 0,
        loiter_speed_ms |-> 0, swarm_track_speed_ms |-> 25,
        climb_rate |-> 8, descent_rate |-> 5, loiter_radius |-> 0, turn_per_tick |-> 12]

\* config.py get_vehicle_performance
VehiclePerf(v) == Perf(ConfigType(v))

\* start_simulation: every vehicle at (52.0, -1.5), 127 m, in LOITER, with a
\* random heading hd[v]
NavAtStart(v, hd) ==
  [x |-> 0, y |-> 0, alt |-> 1270, heading |-> hd[v],
   groundspeed |-> IF ConfigType(v) = "plane" THEN VehiclePerf(v).loiter_speed_ms ELSE 0]

\* the values random.uniform(0, 360) is sampled at
StartHeadings(v) == IF ConfigType(v) = "plane" THEN {0, 61} ELSE {0}

\* the simulation state start_simulation builds, after mark_chick_released
\* for the chicks of `released`
SimStarted(released) ==
  /\ \E hd \in [Vehicles -> UNION {StartHeadings(v) : v \in Vehicles}] :
       /\ \A v \in Vehicles : hd[v] \in StartHeadings(v)
       /\ sim_nav = [v \in Vehicles |-> NavAtStart(v, hd)]
  /\ sim_goto_target = EmptyFn
  /\ sim_target_alt = [v \in Vehicles |-> 1270]
  /\ sim_home = [v \in Vehicles |-> <<0, 0>>]
  /\ sim_loiter_center = [v \in Vehicles |-> <<0, 0>>]
  /\ sim_loiter_angle = [v \in Vehicles |-> 0]
  /\ chicks_attached = [v \in Chicks |-> v \notin released]
  /\ chicks_released = [v \in released |-> TRUE]
  /\ swarm_active = FALSE
  /\ swarm_config = NoSwarmConfig

\* MAVLinkManager.__init__
InitMgr ==
  /\ simulation_mode = TRUE
  /\ conn_mode = "simulation"
  /\ sim_attrs = FALSE
  /\ sim_timer_active = FALSE
  /\ connections = EmptyFn
  /\ vehicle_types = EmptyFn
  /\ telemetry = EmptyFn
  /\ mlrs_port = NoTransport
  /\ backup_connection = NoTransport
  /\ receiver_running = FALSE
  /\ receiver_thread = NoThread
  /\ sim_missions = EmptyFn
  /\ sim_current_wp = EmptyFn
  /\ SimFresh

InitEnv ==
  /\ transports = EmptyFn
  /\ inbox = EmptyFn
  /\ faulty = {}
  /\ streams = {}
  /\ threads = EmptyFn
  /\ rx_todo = EmptyFn
  /\ rx_read = EmptyFn
  /\ rx_snap = EmptyFn
  /\ now = 0

InitObs ==
  /\ main_pc = "idle"
  /\ last_call = [op |-> "init", ok |-> TRUE]
  /\ conn_shown = EmptyFn
  /\ signals = <<>>
  /\ handled = [t \in DOMAIN transports |-> 0]
  /\ last_hb = EmptyFn
  /\ arrived = 0

InitUp ==
  /\ up_pc = "idle"
  /\ up_vid = None
  /\ up_wps = <<>>
  /\ up_items = <<>>
  /\ up_i = 0
  /\ up_tx = <<>>
  /\ up_rx = <<>>
  /\ up_result = None

InitDl ==
  /\ dl_pc = "idle"
  /\ dl_vid = None
  /\ dl_count = 0
  /\ dl_i = 0
  /\ dl_tx = <<>>
  /\ dl_rx = <<>>
  /\ dl_mission = <<>>
  /\ dl_result = None

InitCmd ==
  /\ cmd_sent = <<>>
  /\ ncalls = 0

\* The manager after connect_sitl registered the vehicles of S (one transport
\* each, numbered in the dict's order), with the kinds the heartbeats reported.
SitlTransport(v) == IF v = "bird1" THEN 1 ELSE 2

\* The manager after start_simulation (app.py starts it when the window
\* opens) and mark_chick_released for the chicks of `released`
InitMgrSimulatedWith(released) ==
  /\ simulation_mode = TRUE /\ conn_mode = "simulation"
  /\ sim_attrs = TRUE /\ sim_timer_active = TRUE
  /\ connections = EmptyFn /\ vehicle_types = EmptyFn
  /\ telemetry = [v \in Vehicles |-> [mode |-> "LOITER", armed |-> TRUE, last_heartbeat |-> 0]]
  /\ mlrs_port = NoTransport /\ backup_connection = NoTransport
  /\ receiver_running = FALSE /\ receiver_thread = NoThread
  /\ sim_missions = EmptyFn /\ sim_current_wp = EmptyFn
  /\ transports = EmptyFn
  /\ SimStarted(released)

InitMgrSimulated == InitMgrSimulatedWith({})

\* The manager after start_simulation and then a connect_sitl that registered
\* the vehicles of S, whose heartbeats reported the kinds `types`, mode number
\* 5 and disarmed. The simulated telemetry records of the other vehicles stay.
InitMgrSitl(S, types) ==
  /\ simulation_mode = FALSE /\ conn_mode = "sitl"
  /\ sim_attrs = TRUE /\ sim_timer_active = FALSE
  /\ connections = [v \in S |-> SitlTransport(v)]
  /\ vehicle_types = types
  /\ telemetry = [v \in Vehicles |->
                    IF v \in S
                    THEN [mode |-> IF types[v] = "plane" THEN "FBWA" ELSE "LOITER",
                          armed |-> FALSE, last_heartbeat |-> 0]
                    ELSE [mode |-> "LOITER", armed |-> TRUE, last_heartbeat |-> 0]]
  /\ mlrs_port = NoTransport /\ backup_connection = NoTransport
  /\ receiver_running = TRUE /\ receiver_thread = 1
  /\ sim_missions = EmptyFn /\ sim_current_wp = EmptyFn
  /\ transports = [t \in {SitlTransport(v) : v \in S} |-> "open"]
  /\ SimStarted({})

\* The states a mission transfer can find the manager in: freshly constructed,
\* simulating, or connected to SITL vehicles of the configured kinds.
InitMgrConfigured ==
  \/ InitMgr /\ transports = EmptyFn
  \/ InitMgrSimulated
  \/ \E S \in (SUBSET Vehicles) \ {{}} : InitMgrSitl(S, [v \in S |-> ConfigType(v)])

InitEnvConfigured ==
  /\ inbox = [t \in DOMAIN transports |-> <<>>]
  /\ faulty = {}
  /\ streams = (IF conn_mode = "sitl" THEN DOMAIN transports ELSE {})
  /\ threads = IF receiver_running THEN (1 :> "check") ELSE EmptyFn
  /\ rx_todo = IF receiver_running THEN (1 :> <<>>) ELSE EmptyFn
  /\ rx_read = IF receiver_running THEN (1 :> {}) ELSE EmptyFn
  /\ rx_snap = IF receiver_running THEN (1 :> {}) ELSE EmptyFn
  /\ now = 0

\* ============================================================ missions
\* A waypoint dict: lat8/lon8 are the float coordinates in units of 1e-8
\* degree (one digit finer than the wire's 1e-7 degree integers).
WpSamples ==
  { [type |-> "WAYPOINT",     lat8 |-> 15, lon8 |-> -27, alt |-> 100, chick_id |-> ""],
    [type |-> "LAUNCH_CHICK", lat8 |-> 20, lon8 |-> 30,  alt |-> 120, chick_id |-> "chick1.1"],
    [type |-> "RTL",          lat8 |-> 0,  lon8 |-> 0,   alt |-> 0,   chick_id |-> ""],
    [type |-> "LAND",         lat8 |-> 40, lon8 |-> 50,  alt |-> 0,   chick_id |-> ""] }

WaypointLists == SeqsUpTo(WpSamples, MaxWps)

Item(cmd, p1, x, y, z) == [command |-> cmd, param1 |-> p1, x |-> x, y |-> y, z |-> z]

\* the wire items of one waypoint (_build_mission_items, loop body)
ItemsOfWaypoint(wp) ==
  LET lat == Trunc(wp.lat8, 10)
      lon == Trunc(wp.lon8, 10)
      alt == wp.alt
  IN  CASE wp.type = "WAYPOINT"    -> << Item("NAV_WAYPOINT", 0, lat, lon, alt) >>
        [] wp.type = "LOITER"      -> << Item("NAV_LOITER_UNLIM", 0, lat, lon, alt) >>
        [] wp.type = "LOITER_TIME" -> << Item("NAV_LOITER_TIME", 30, lat, lon, alt) >>
        [] wp.type = "RTL"         -> << Item("NAV_RETURN_TO_LAUNCH", 0, 0, 0, 0) >>
        [] wp.type = "LAUNCH_CHICK" ->
             << Item("NAV_WAYPOINT", 0, lat, lon, alt),
                Item("DO_SET_SERVO", IF wp.chick_id \in {"chick1", "chick1.1", "chick1.2"}
                                     THEN 9 ELSE 10, 0, 0, 0) >>
        [] wp.type = "TARGET"      -> << Item("NAV_WAYPOINT", 0, lat, lon, alt) >>
        [] OTHER                   -> << >>

RECURSIVE ItemsOfWaypoints(_)
ItemsOfWaypoints(wps) ==
  IF wps = <<>> THEN <<>>
  ELSE ItemsOfWaypoint(Head(wps)) \o ItemsOfWaypoints(Tail(wps))

\* MAVLinkManager._build_mission_items: home item first, then the waypoints
BuildMissionItems(wps) ==
  IF wps = <<>> THEN <<>>
  ELSE << Item("NAV_WAYPOINT", 0, Trunc(wps[1].lat8, 10), Trunc(wps[1].lon8, 10), wps[1].alt) >>
       \o ItemsOfWaypoints(wps)

\* ====================================================== upload_mission
TxMsg(t, seq, ans, n) == [t |-> t, seq |-> seq, ans |-> ans, n |-> n]
RxMsg(t, seq, type) == [t |-> t, seq |-> seq, type |-> type]

\* the sequence numbers a vehicle may ask for while the loop is at index i:
\* the expected one, a repeat of the previous one, or the one after
ReqSeqs(i, n) == {r \in {i - 1, i, i + 1} : 0 <= r /\ r < n}

UploadFinish(res) ==
  /\ up_result' = res
  /\ up_pc' = "done"
  /\ last_call' = [op |-> "upload_mission", ok |-> (res = "ok")]

\* upload_mission up to the first blocking wait
UploadCall(v, wps) ==
  /\ up_pc = "idle"
  /\ up_vid' = v
  /\ up_wps' = wps
  /\ up_rx' = <<>>
  /\ IF simulation_mode THEN
       \* simulation mode: store locally (an AttributeError escapes when the
       \* _sim_* attributes were never created)
       /\ IF sim_attrs
            THEN /\ sim_missions' = Put(sim_missions, v, wps)
                 /\ sim_current_wp' = Put(sim_current_wp, v, 0)
                 /\ UploadFinish("ok")
            ELSE /\ UNCHANGED <<sim_missions, sim_current_wp>>
                 /\ UploadFinish("raise")
       /\ up_tx' = <<>> /\ up_items' = <<>> /\ up_i' = 0
     ELSE IF v \notin DOMAIN connections THEN
       /\ UploadFinish("fail")
       /\ up_tx' = <<>> /\ up_items' = <<>> /\ up_i' = 0
       /\ UNCHANGED <<sim_missions, sim_current_wp>>
     ELSE
       LET items == BuildMissionItems(wps) IN
       /\ up_items' = items
       /\ up_tx' = << TxMsg("CLEAR", -1, -1, 0), TxMsg("COUNT", -1, -1, Len(items)) >>
       /\ up_i' = 0
       /\ up_pc' = IF Len(items) = 0 THEN "wait_ack" ELSE "wait_req"
       /\ up_result' = None
       /\ UNCHANGED <<sim_missions, sim_current_wp, last_call>>
  /\ UNCHANGED <<simulation_mode, conn_mode, sim_attrs, sim_timer_active, connections,
                 vehicle_types, telemetry, mlrs_port, backup_connection,
                 receiver_running, receiver_thread>>
  /\ UNCHANGED <<envVars, main_pc, conn_shown, signals, handled, last_hb, arrived, dlVars, cmdVars>>

UploadFrame == UNCHANGED <<mgrVars, envVars, main_pc, conn_shown, signals, handled, last_hb, arrived, dlVars, cmdVars>>

\* a MISSION_REQUEST(_INT) for sequence number r arrived: item up_i is sent
UploadRecvRequest(r) ==
  /\ up_pc = "wait_req"
  /\ up_rx' = Append(up_rx, RxMsg("REQ", r, -1))
  /\ up_tx' = Append(up_tx, TxMsg("ITEM", up_i, r, 0))
  /\ up_i' = up_i + 1
  /\ up_pc' = IF up_i + 1 = Len(up_items) THEN "wait_ack" ELSE "wait_req"
  /\ UNCHANGED <<up_vid, up_wps, up_items, up_result, last_call>>
  /\ UploadFrame

\* A slip that logs the timeout and goes on with the item
UploadRequestTimeout_Continue ==
  /\ up_pc = "wait_req"
  /\ up_rx' = Append(up_rx, RxMsg("TIMEOUT", -1, -1))
  /\ up_tx' = Append(up_tx, TxMsg("ITEM", up_i, -1, 0))
  /\ up_i' = up_i + 1
  /\ up_pc' = IF up_i + 1 = Len(up_items) THEN "wait_ack" ELSE "wait_req"
  /\ UNCHANGED <<up_vid, up_wps, up_items, up_result, last_call>>
  /\ UploadFrame

\* recv_match(type=[MISSION_REQUEST_INT, MISSION_REQUEST], timeout=5) gave None
UploadRequestTimeout ==
  /\ up_pc = "wait_req"
  /\ up_rx' = Append(up_rx, RxMsg("TIMEOUT", -1, -1))
  /\ UploadFinish("fail")
  /\ UNCHANGED <<up_vid, up_wps, up_items, up_i, up_tx>>
  /\ UploadFrame

\* the MISSION_ACK arrived, of type a
UploadRecvAck(a) ==
  /\ up_pc = "wait_ack"
  /\ up_rx' = Append(up_rx, RxMsg("ACK", -1, a))
  /\ UploadFinish(IF a = MAV_MISSION_ACCEPTED THEN "ok" ELSE "fail")
  /\ UNCHANGED <<up_vid, up_wps, up_items, up_i, up_tx>>
  /\ UploadFrame

\* recv_match(type=MISSION_ACK, timeout=5) gave None
UploadAckTimeout ==
  /\ up_pc = "wait_ack"
  /\ up_rx' = Append(up_rx, RxMsg("TIMEOUT", -1, -1))
  /\ UploadFinish("fail")
  /\ UNCHANGED <<up_vid, up_wps, up_items, up_i, up_tx>>
  /\ UploadFrame

\* a send or receive raised: except Exception -> return False
UploadException ==
  /\ up_pc \in {"wait_req", "wait_ack"}
  /\ UploadFinish("fail")
  /\ UNCHANGED <<up_vid, up_wps, up_items, up_i, up_tx, up_rx>>
  /\ UploadFrame

\* the call has returned; the caller may call again
UploadReturn ==
  /\ up_pc = "done"
  /\ up_pc' = "idle"
  /\ up_vid' = None /\ up_wps' = <<>> /\ up_items' = <<>> /\ up_i' = 0
  /\ up_tx' = <<>> /\ up_rx' = <<>> /\ up_result' = None
  /\ UNCHANGED last_call
  /\ UploadFrame

NextUpload ==
  \/ \E v \in Vehicles : \E wps \in WaypointLists : UploadCall(v, wps)
  \/ \E r \in ReqSeqs(up_i, Len(up_items)) : UploadRecvRequest(r)
  \/ UploadRequestTimeout
  \/ \E a \in {MAV_MISSION_ACCEPTED, MAV_MISSION_ERROR} : UploadRecvAck(a)
  \/ UploadAckTimeout
  \/ UploadException
  \/ UploadReturn

InitUpload ==
  /\ InitMgrConfigured /\ InitEnvConfigured /\ InitObs /\ InitUp /\ InitDl /\ InitCmd

SpecUpload == InitUpload /\ [][NextUpload]_vars

\* ==================================================== download_mission
\* the MISSION_ITEM_INT replies a vehicle may give
ItemSamples ==
  { Item("NAV_WAYPOINT", 0, 1, -2, 100),
    Item("NAV_LOITER_UNLIM", 0, 2, 3, 120),
    Item("NAV_RETURN_TO_LAUNCH", 0, 0, 0, 0) }

\* download_mission: wire command id -> WaypointType
WaypointTypeOfCommand(cmd) ==
  CASE cmd = "NAV_LOITER_UNLIM"     -> "LOITER"
    [] cmd = "NAV_LOITER_TIME"      -> "LOITER_TIME"
    [] cmd = "NAV_RETURN_TO_LAUNCH" -> "RTL"
    [] OTHER                        -> "WAYPOINT"

\* mission.py Mission.add_waypoint: the next id is one more than the last
\* (name: the i of "WP{i}", or -1 for the empty name)
AddWaypoint(mission, type, lat8, lon8, alt, name) ==
  Append(mission, [id |-> Len(mission) + 1, type |-> type,
                   lat8 |-> lat8, lon8 |-> lon8, alt |-> alt, name |-> name])

\* simulation branch: WaypointType(wp_type_str), falling back to WAYPOINT
SimWaypointType(str) == IF str \in WaypointTypes THEN str ELSE "WAYPOINT"

\* A slip that drops waypoints at (0, 0), as the real-link download does
RECURSIVE MissionOfWaypoints_SkipZero(_, _)
MissionOfWaypoints_SkipZero(mission, wps) ==
  IF wps = <<>> THEN mission
  ELSE MissionOfWaypoints_SkipZero(
         IF Head(wps).lat8 = 0 /\ Head(wps).lon8 = 0 THEN mission
         ELSE AddWaypoint(mission, SimWaypointType(Head(wps).type),
                          Head(wps).lat8, Head(wps).lon8, Head(wps).alt, -1),
         Tail(wps))

RECURSIVE MissionOfWaypoints(_, _)
MissionOfWaypoints(mission, wps) ==
  IF wps = <<>> THEN mission
  ELSE MissionOfWaypoints(
         AddWaypoint(mission, SimWaypointType(Head(wps).type),
                     Head(wps).lat8, Head(wps).lon8, Head(wps).alt, -1),
         Tail(wps))

DownloadFinish(res) ==
  /\ dl_result' = res
  /\ dl_pc' = "done"
  /\ last_call' = [op |-> "download_mission", ok |-> (res = "mission")]

DownloadFrame == UNCHANGED <<mgrVars, envVars, main_pc, conn_shown, signals, handled, last_hb, arrived, upVars, cmdVars>>

\* download_mission up to the first blocking wait
DownloadCall(v) ==
  /\ dl_pc = "idle"
  /\ dl_vid' = v
  /\ dl_rx' = <<>> /\ dl_count' = 0 /\ dl_i' = 0
  /\ IF simulation_mode THEN
       /\ dl_tx' = <<>>
       /\ IF ~sim_attrs THEN dl_mission' = <<>> /\ DownloadFinish("raise")
          ELSE IF v \in DOMAIN sim_missions
          THEN /\ dl_mission' = MissionOfWaypoints(<<>>, sim_missions[v])
               /\ DownloadFinish("mission")
          ELSE dl_mission' = <<>> /\ DownloadFinish(None)
     ELSE IF v \notin DOMAIN connections THEN
       /\ dl_tx' = <<>> /\ dl_mission' = <<>>
       /\ DownloadFinish(None)
     ELSE
       /\ dl_tx' = << TxMsg("REQUEST_LIST", -1, -1, 0) >>
       /\ dl_mission' = <<>>
       /\ dl_pc' = "wait_count"
       /\ dl_result' = None
       /\ UNCHANGED last_call
  /\ DownloadFrame

\* the MISSION_COUNT reply arrived with count c
DownloadRecvCount(c) ==
  /\ dl_pc = "wait_count"
  /\ dl_rx' = Append(dl_rx, RxMsg("COUNT", c, -1))
  /\ dl_count' = c
  /\ IF c = 0
       THEN DownloadFinish(None) /\ UNCHANGED dl_tx
       ELSE /\ dl_tx' = Append(dl_tx, TxMsg("REQUEST_INT", 0, -1, 0))
            /\ dl_pc' = "wait_item"
            /\ UNCHANGED <<dl_result, last_call>>
  /\ UNCHANGED <<dl_vid, dl_i, dl_mission>>
  /\ DownloadFrame

\* recv_match(type=MISSION_COUNT, timeout=5) gave None
DownloadCountTimeout ==
  /\ dl_pc = "wait_count"
  /\ dl_rx' = Append(dl_rx, RxMsg("TIMEOUT", -1, -1))
  /\ DownloadFinish(None)
  /\ UNCHANGED <<dl_vid, dl_count, dl_i, dl_tx, dl_mission>>
  /\ DownloadFrame

\* the end of one round of the `for i in range(count)` loop: request the
\* next item, or after the last one send the ACK and return the mission
DownloadAdvance ==
  /\ dl_i' = dl_i + 1
  /\ IF dl_i + 1 = dl_count
       THEN /\ dl_tx' = Append(dl_tx, TxMsg("ACK", -1, -1, MAV_MISSION_ACCEPTED))
            /\ DownloadFinish("mission")
       ELSE /\ dl_tx' = Append(dl_tx, TxMsg("REQUEST_INT", dl_i + 1, -1, 0))
            /\ UNCHANGED <<dl_pc, dl_result, last_call>>

\* a MISSION_ITEM_INT arrived while waiting for item dl_i
DownloadRecvItem(item) ==
  /\ dl_pc = "wait_item"
  /\ dl_rx' = Append(dl_rx, RxMsg("ITEM", dl_i, -1))
  /\ dl_mission' =
       IF dl_i = 0 THEN dl_mission                        \* skip home
       ELSE IF item.x * 10 # 0 \/ item.y * 10 # 0          \* lat != 0 or lon != 0
       THEN AddWaypoint(dl_mission, WaypointTypeOfCommand(item.command),
                        item.x * 10, item.y * 10, item.z, dl_i)
       ELSE dl_mission
  /\ DownloadAdvance
  /\ UNCHANGED <<dl_vid, dl_count>>
  /\ DownloadFrame

\* recv_match(type=MISSION_ITEM_INT, timeout=5) gave None: `continue`
DownloadItemTimeout ==
  /\ dl_pc = "wait_item"
  /\ dl_rx' = Append(dl_rx, RxMsg("TIMEOUT", dl_i, -1))
  /\ DownloadAdvance
  /\ UNCHANGED <<dl_vid, dl_count, dl_mission>>
  /\ DownloadFrame

\* a send or receive raised: except Exception -> return None
DownloadException ==
  /\ dl_pc \in {"wait_count", "wait_item"}
  /\ DownloadFinish(None)
  /\ UNCHANGED <<dl_vid, dl_count, dl_i, dl_tx, dl_rx, dl_mission>>
  /\ DownloadFrame

\* the call has returned; the caller may call again
DownloadReturn ==
  /\ dl_pc = "done"
  /\ dl_pc' = "idle"
  /\ dl_vid' = None /\ dl_count' = 0 /\ dl_i' = 0
  /\ dl_tx' = <<>> /\ dl_rx' = <<>> /\ dl_mission' = <<>> /\ dl_result' = None
  /\ UNCHANGED last_call
  /\ DownloadFrame

NextDownload ==
  \/ \E v \in Vehicles : DownloadCall(v)
  \/ \E c \in 0..MaxCount : DownloadRecvCount(c)
  \/ DownloadCountTimeout
  \/ \E item \in ItemSamples : DownloadRecvItem(item)
  \/ DownloadItemTimeout
  \/ DownloadException
  \/ DownloadReturn

\* the manager as a download finds it; in simulation a mission may be stored
InitDownload ==
  /\ \/ InitMgr /\ transports = EmptyFn
     \/ /\ InitMgrSimulated
     \/ \E S \in (SUBSET Vehicles) \ {{}} : InitMgrSitl(S, [v \in S |-> ConfigType(v)])
  /\ InitEnvConfigured /\ InitObs /\ InitUp /\ InitDl /\ InitCmd

SpecDownload == InitDownload /\ [][NextDownload]_vars

\* ------------------------------------- upload then download, simulated
\* the vehicle the missions of this scenario are uploaded to
RoundVehicle == "chick1.1"

NextRound ==
  \/ \E wps \in WaypointLists : UploadCall(RoundVehicle, wps)
  \/ UploadReturn
  \/ \E v \in Vehicles : DownloadCall(v)
  \/ DownloadReturn

InitRound ==
  /\ InitMgrSimulated
  /\ InitEnvConfigured /\ InitObs /\ InitUp /\ InitDl /\ InitCmd

SpecRound == InitRound /\ [][NextRound]_vars

\* ======================================================== mode tables
\* MAVLinkManager.__init__: self._plane_modes
PlaneModes ==
  [ MANUAL |-> 0, CIRCLE |-> 1, STABILIZE |-> 2, TRAINING |-> 3, ACRO |-> 4,
    FBWA |-> 5, FBWB |-> 6, CRUISE |-> 7, AUTOTUNE |-> 8, AUTO |-> 10,
    RTL |-> 11, LOITER |-> 12, TAKEOFF |-> 13, AVOID_ADSB |-> 14, GUIDED |-> 15,
    QSTABILIZE |-> 17, QHOVER |-> 18, QLOITER |-> 19, QLAND |-> 20, QRTL |-> 21,
    LAND |-> 23 ]

\* MAVLinkManager.__init__: self._copter_modes
CopterModes ==
  [ STABILIZE |-> 0, ACRO |-> 1, ALT_HOLD |-> 2, AUTO |-> 3, GUIDED |-> 4,
    LOITER |-> 5, RTL |-> 6, CIRCLE |-> 7, LAND |-> 9, DRIFT |-> 11, SPORT |-> 13,
    FLIP |-> 14, AUTOTUNE |-> 15, POSHOLD |-> 16, BRAKE |-> 17, THROW |-> 18,
    SMART_RTL |-> 21, GUIDED_NOGPS |-> 20 ]

\* the table selected by `is_plane = vehicle_type == "plane"`
ModeTable(vehicle_type) == IF vehicle_type = "plane" THEN PlaneModes ELSE CopterModes

\* A slip that prefers the configured kind to the detected one
VehicleType_Configured(vid) ==
  IF vid \in Vehicles THEN ConfigType(vid)
  ELSE IF vid \in DOMAIN vehicle_types THEN vehicle_types[vid] ELSE "copter"

\* the detected kind of a vehicle, else the configured one (default "copter")
VehicleType(vid) ==
  IF vid \in DOMAIN vehicle_types THEN vehicle_types[vid]
  ELSE IF vid \in Vehicles THEN ConfigType(vid) ELSE "copter"

\* _get_mode_name applied to a given kind
ModeNameOfType(vehicle_type, mode_num) ==
  LET modes == ModeTable(vehicle_type)
      names == {name \in DOMAIN modes : modes[name] = mode_num}
  IN  IF names # {} THEN CHOOSE name \in names : TRUE
      ELSE "MODE_" \o ToString(mode_num)

\* MAVLinkManager._get_mode_name
GetModeName(vid, mode_num) == ModeNameOfType(VehicleType(vid), mode_num)

\* ============================================== telemetry and handlers
\* VehicleTelemetry(): the dataclass defaults
DefaultTelemetry == [mode |-> "", armed |-> FALSE, last_heartbeat |-> 0]

Signal(sig, vid, val) == [sig |-> sig, vid |-> vid, val |-> val]

\* MAVLinkManager.is_connected: time.time() - telem.last_heartbeat < 5.0
\* (the clock counts 5 s windows)
IsConnected(vid) ==
  /\ vid \in DOMAIN telemetry
  /\ now - telemetry[vid].last_heartbeat < 1

\* messages: a heartbeat carries custom_mode and the armed bit of base_mode;
\* `bad` marks a message on which the handler raises
Msg(type, custom_mode, armed, bad) ==
  [type |-> type, custom_mode |-> custom_mode, armed |-> armed, bad |-> bad]

MsgSamples ==
  { Msg("HEARTBEAT", 5, FALSE, FALSE),
    Msg("HEARTBEAT", 10, FALSE, FALSE),
    Msg("HEARTBEAT", 5, TRUE, FALSE),
    Msg("VFR_HUD", 0, FALSE, FALSE),
    Msg("STATUSTEXT", 0, FALSE, TRUE) }

\* A slip that raises both notifications on every heartbeat
HeartbeatSignals_Always(vid, telem, msg) ==
  << Signal("mode_changed", vid, GetModeName(vid, msg.custom_mode)),
     Signal("armed_changed", vid, msg.armed) >>

\* _handle_heartbeat: the notifications it raises, given the stored record
HeartbeatSignals(vid, telem, msg) ==
  LET new_mode == GetModeName(vid, msg.custom_mode)
      new_armed == msg.armed
  IN  (IF new_mode # telem.mode
       THEN << Signal("mode_changed", vid, new_mode) >> ELSE << >>)
      \o
      (IF new_armed # telem.armed
       THEN << Signal("armed_changed", vid, new_armed) >> ELSE << >>)

\* _handle_heartbeat: the record it leaves
HeartbeatTelemetry(vid, telem, msg) ==
  [telem EXCEPT !.last_heartbeat = now,
                !.mode = GetModeName(vid, msg.custom_mode),
                !.armed = msg.armed]

\* _handle_mavlink_message(vehicle_id, msg), called inside the loop's try:
\* an exception raised by a handler leaves what it did before raising
HandleMessage(vid, msg) ==
  LET telem == IF vid \in DOMAIN telemetry THEN telemetry[vid] ELSE DefaultTelemetry
  IN  IF msg.bad THEN
        UNCHANGED <<telemetry, signals, last_hb>>
      ELSE IF msg.type = "HEARTBEAT" THEN
        /\ telemetry' = Put(telemetry, vid, HeartbeatTelemetry(vid, telem, msg))
        /\ signals' = signals \o HeartbeatSignals(vid, telem, msg)
        /\ last_hb' = Put(last_hb, vid, msg)
      ELSE IF msg.type \in {"VFR_HUD", "GLOBAL_POSITION_INT"} THEN
        /\ signals' = IF vid \in DOMAIN telemetry
                      THEN Append(signals, Signal("telemetry_received", vid, ""))
                      ELSE signals
        /\ UNCHANGED <<telemetry, last_hb>>
      ELSE
        UNCHANGED <<telemetry, signals, last_hb>>

\* ====================================================== receiver loop
Alive(w) == w \in DOMAIN threads /\ threads[w] # "dead"

AliveThreads == {w \in DOMAIN threads : Alive(w)}

\* the transports a connect call registered and disconnect_all has not dropped
RegisteredTransports ==
  Range(connections) \cup ({mlrs_port, backup_connection} \ {NoTransport})

\* list(self._connections.items()), in the dict's order
RECURSIVE ConnectionItems(_, _)
ConnectionItems(order, conns) ==
  IF order = <<>> THEN <<>>
  ELSE (IF Head(order) \in DOMAIN conns
        THEN << [vid |-> Head(order), conn |-> conns[Head(order)]] >> ELSE << >>)
       \o ConnectionItems(Tail(order), conns)

VehicleOrder == << "bird1", "chick1.1" >>

RecvFrame ==
  UNCHANGED <<simulation_mode, conn_mode, sim_attrs, sim_timer_active, connections,
              vehicle_types, mlrs_port, backup_connection, receiver_running,
              receiver_thread, sim_missions, sim_current_wp,
              transports, faulty, streams, now, main_pc, last_call, conn_shown, arrived,
              upVars, dlVars, cmdVars>>

\* `while self._receiver_running:` then `for ... in list(self._connections.items())`
RecvCheck(w) ==
  /\ Alive(w) /\ threads[w] = "check"
  /\ IF receiver_running
       THEN /\ threads' = [threads EXCEPT ![w] = "sweep"]
            /\ rx_todo' = [rx_todo EXCEPT ![w] = ConnectionItems(VehicleOrder, connections)]
            /\ rx_read' = [rx_read EXCEPT ![w] = {}]
            /\ rx_snap' = [rx_snap EXCEPT ![w] = RegisteredTransports]
       ELSE /\ threads' = [threads EXCEPT ![w] = "dead"]
            /\ rx_todo' = [rx_todo EXCEPT ![w] = << >>]
            /\ rx_read' = [rx_read EXCEPT ![w] = {}]
            /\ rx_snap' = [rx_snap EXCEPT ![w] = {}]
  /\ UNCHANGED <<inbox, handled, telemetry, signals, last_hb>>
  /\ RecvFrame

\* A slip without the try/except inside the for loop: the exception ends the
\* thread
RecvPoll_NoTry(w) ==
  /\ Alive(w) /\ threads[w] = "sweep" /\ rx_todo[w] # <<>>
  /\ LET vid == Head(rx_todo[w]).vid
         conn == Head(rx_todo[w]).conn
     IN  /\ rx_read' = [rx_read EXCEPT ![w] = @ \cup {conn}]
         /\ IF conn \in faulty \/ transports[conn] = "closed" THEN
              /\ threads' = [threads EXCEPT ![w] = "dead"]
              /\ rx_todo' = [rx_todo EXCEPT ![w] = << >>]
              /\ UNCHANGED <<inbox, handled, telemetry, signals, last_hb>>
            ELSE IF inbox[conn] = <<>> THEN
              /\ rx_todo' = [rx_todo EXCEPT ![w] = Tail(@)]
              /\ UNCHANGED <<threads, inbox, handled, telemetry, signals, last_hb>>
            ELSE
              /\ inbox' = [inbox EXCEPT ![conn] = Tail(@)]
              /\ handled' = [handled EXCEPT ![conn] = @ + 1]
              /\ HandleMessage(vid, Head(inbox[conn]))
              /\ IF Head(inbox[conn]).bad
                   THEN /\ threads' = [threads EXCEPT ![w] = "dead"]
                        /\ rx_todo' = [rx_todo EXCEPT ![w] = << >>]
                   ELSE /\ rx_todo' = [rx_todo EXCEPT ![w] = Tail(@)]
                        /\ UNCHANGED threads
  /\ UNCHANGED rx_snap
  /\ RecvFrame

\* one round of the for loop: conn.recv_match(blocking=False) and, if a
\* message came, _handle_mavlink_message; any exception is caught and printed
RecvPoll(w) ==
  /\ Alive(w) /\ threads[w] = "sweep" /\ rx_todo[w] # <<>>
  /\ LET vid == Head(rx_todo[w]).vid
         conn == Head(rx_todo[w]).conn
     IN  /\ rx_read' = [rx_read EXCEPT ![w] = @ \cup {conn}]
         /\ rx_todo' = [rx_todo EXCEPT ![w] = Tail(@)]
         /\ IF conn \in faulty \/ transports[conn] = "closed" THEN
              \* recv_match raised
              UNCHANGED <<inbox, handled, telemetry, signals, last_hb>>
            ELSE IF inbox[conn] = <<>> THEN
              \* no message waiting
              UNCHANGED <<inbox, handled, telemetry, signals, last_hb>>
            ELSE
              /\ inbox' = [inbox EXCEPT ![conn] = Tail(@)]
              /\ handled' = [handled EXCEPT ![conn] = @ + 1]
              /\ HandleMessage(vid, Head(inbox[conn]))
  /\ UNCHANGED <<threads, rx_snap>>
  /\ RecvFrame

\* time.sleep(0.01) after the sweep, back to the while condition
RecvSleep(w) ==
  /\ Alive(w) /\ threads[w] = "sweep" /\ rx_todo[w] = <<>>
  /\ threads' = [threads EXCEPT ![w] = "check"]
  /\ UNCHANGED <<rx_todo, rx_read, rx_snap, inbox, handled, telemetry, signals, last_hb>>
  /\ RecvFrame

\* _start_receiver_thread, when `start` holds (else nothing)
StartReceiverThread(start) ==
  IF start /\ ~receiver_running
  THEN LET w == Cardinality(DOMAIN threads) + 1 IN
       /\ receiver_running' = TRUE
       /\ receiver_thread' = w
       /\ threads' = Put(threads, w, "check")
       /\ rx_todo' = Put(rx_todo, w, << >>)
       /\ rx_read' = Put(rx_read, w, {})
       /\ rx_snap' = Put(rx_snap, w, {})
  ELSE UNCHANGED <<receiver_running, receiver_thread, threads, rx_todo, rx_read, rx_snap>>

\* ================================================ connection lifecycle
\* what the 10 s wait for the first heartbeat gives: nothing, or a heartbeat
\* of a fixed-wing / rotary vehicle
HbOutcomes == {"none", "plane", "copter"}

\* the first heartbeat's custom_mode (plane: FBWA, copter: LOITER), disarmed
FirstHbMode == 5

\* ids of the transport objects a call creates, in creation order
NewTransport(k) == Cardinality(DOMAIN transports) + k

\* an id that SWARM_CONFIG does not list, and the order of the keys of a
\* vehicle_configs dict
OtherVehicle == "bird2"

ConfigOrder == VehicleOrder \o << OtherVehicle >>

\* position of v in the dict order of the vehicle_configs restricted to cfg
CfgIndex(cfg, v) ==
  Cardinality({k \in 1..Len(ConfigOrder) :
                 ConfigOrder[k] \in cfg /\
                 k <= (CHOOSE j \in 1..Len(ConfigOrder) : ConfigOrder[j] = v)})

\* a call may start a thread only while the run's thread budget lasts
ThreadBudget == receiver_running \/ Cardinality(DOMAIN threads) < MaxThreads

\* MAVLinkManager.stop_simulation, as part of a caller's step
StopSimulationEffect ==
  /\ sim_timer_active' = FALSE
  /\ simulation_mode' = FALSE

ConnFrame ==
  UNCHANGED <<sim_missions, sim_current_wp, faulty, now, main_pc, signals,
              handled, last_hb, arrived, upVars, dlVars, cmdVars>>

\* connect_sitl(vehicle_configs) with the endpoints of cfg; hb[v] is what the
\* wait for v's first heartbeat gives
ConnectSitl(cfg, hb) ==
  LET got == {v \in cfg : hb[v] # "none"}
      tid(v) == NewTransport(CfgIndex(cfg, v))
      new == {tid(v) : v \in cfg}
  IN
  /\ main_pc = "idle"
  /\ Cardinality(DOMAIN transports) + Cardinality(cfg) <= MaxTransports
  /\ ThreadBudget
  /\ StopSimulationEffect
  /\ conn_mode' = "sitl"
  /\ transports' = [t \in DOMAIN transports \cup new |->
                      IF t \in new THEN "open" ELSE transports[t]]
  /\ inbox' = [t \in DOMAIN inbox \cup new |-> IF t \in new THEN << >> ELSE inbox[t]]
  /\ connections' = [v \in DOMAIN connections \cup got |->
                       IF v \in got THEN tid(v) ELSE connections[v]]
  /\ vehicle_types' = [v \in DOMAIN vehicle_types \cup got |->
                         IF v \in got THEN hb[v] ELSE vehicle_types[v]]
  /\ telemetry' = [v \in DOMAIN telemetry \cup got |->
                     IF v \in got
                     THEN [mode |-> ModeNameOfType(hb[v], FirstHbMode),
                           armed |-> FALSE, last_heartbeat |-> now]
                     ELSE telemetry[v]]
  /\ conn_shown' = [v \in DOMAIN conn_shown \cup got |->
                      IF v \in got THEN TRUE ELSE conn_shown[v]]
  /\ StartReceiverThread(got # {})
  /\ streams' = streams \cup {tid(v) : v \in got}
  /\ last_call' = [op |-> "connect_sitl", ok |-> (got # {})]
  /\ UNCHANGED <<sim_attrs, mlrs_port, backup_connection>>
  /\ ConnFrame

\* connect_mlrs(port, baudrate): the shared MLRS bus
ConnectMlrs(hb) ==
  LET t == NewTransport(1) IN
  /\ main_pc = "idle"
  /\ Cardinality(DOMAIN transports) + 1 <= MaxTransports
  /\ ThreadBudget
  /\ StopSimulationEffect
  /\ conn_mode' = "hardware"
  /\ transports' = Put(transports, t, "open")
  /\ inbox' = Put(inbox, t, << >>)
  /\ mlrs_port' = IF hb # "none" THEN t ELSE mlrs_port
  /\ StartReceiverThread(hb # "none")
  /\ last_call' = [op |-> "connect_mlrs", ok |-> (hb # "none")]
  /\ UNCHANGED <<sim_attrs, connections, vehicle_types, telemetry, backup_connection,
                 conn_shown, streams>>
  /\ ConnFrame

\* connect_backup(host, port): the 4G link to the first bird
ConnectBackup(hb) ==
  LET t == NewTransport(1) IN
  /\ main_pc = "idle"
  /\ Cardinality(DOMAIN transports) + 1 <= MaxTransports
  /\ ThreadBudget
  /\ transports' = Put(transports, t, "open")
  /\ inbox' = Put(inbox, t, << >>)
  /\ IF hb # "none"
       THEN /\ backup_connection' = t
            /\ connections' = Put(connections, FirstBird, t)
            /\ conn_shown' = Put(conn_shown, FirstBird, TRUE)
       ELSE UNCHANGED <<backup_connection, connections, conn_shown>>
  /\ StartReceiverThread(hb # "none")
  /\ last_call' = [op |-> "connect_backup", ok |-> (hb # "none")]
  /\ UNCHANGED <<simulation_mode, conn_mode, sim_attrs, sim_timer_active,
                 vehicle_types, telemetry, mlrs_port, streams>>
  /\ ConnFrame

\* disconnect_all up to the join: clear the flag, join(timeout=2) if the
\* thread is alive
DisconnectBegin ==
  /\ main_pc = "idle"
  /\ receiver_running' = FALSE
  /\ main_pc' = "join"
  /\ UNCHANGED <<simulation_mode, conn_mode, sim_attrs, sim_timer_active, connections,
                 vehicle_types, telemetry, mlrs_port, backup_connection,
                 receiver_thread, sim_missions, sim_current_wp>>
  /\ UNCHANGED <<envVars, last_call, conn_shown, signals, handled, last_hb, arrived,
                 upVars, dlVars, cmdVars>>

\* disconnect_all after the join: close what self._connections holds, emit
\* connection_changed(vid, False), clear the three fields
DisconnectClose ==
  /\ transports' = [t \in DOMAIN transports |->
                      IF t \in Range(connections) THEN "closed" ELSE transports[t]]
  /\ conn_shown' = [v \in DOMAIN conn_shown \cup DOMAIN connections |->
                      IF v \in DOMAIN connections THEN FALSE ELSE conn_shown[v]]
  /\ connections' = EmptyFn
  /\ mlrs_port' = NoTransport
  /\ backup_connection' = NoTransport
  /\ main_pc' = "idle"
  /\ last_call' = [op |-> "disconnect_all", ok |-> TRUE]
  /\ UNCHANGED <<simulation_mode, conn_mode, sim_attrs, sim_timer_active,
                 vehicle_types, telemetry, receiver_running, receiver_thread,
                 sim_missions, sim_current_wp>>
  /\ UNCHANGED <<inbox, faulty, streams, threads, rx_todo, rx_read, rx_snap, now,
                 signals, handled, last_hb, arrived, upVars, dlVars, cmdVars>>

\* the thread was not alive, or it ended within the join's 2 s
DisconnectJoinReturns ==
  /\ main_pc = "join"
  /\ receiver_thread = NoThread \/ ~Alive(receiver_thread)
  /\ DisconnectClose

\* the join's 2 s ran out with the thread still alive
DisconnectJoinTimeout ==
  /\ main_pc = "join"
  /\ receiver_thread # NoThread /\ Alive(receiver_thread)
  /\ DisconnectClose

\* start_simulation, as far as the link layer's fields go
StartSimulation ==
  /\ main_pc = "idle"
  /\ simulation_mode' = TRUE
  /\ sim_attrs' = TRUE
  /\ sim_missions' = EmptyFn
  /\ sim_current_wp' = EmptyFn
  /\ telemetry' = [v \in DOMAIN telemetry \cup Vehicles |->
                     IF v \in Vehicles
                     THEN [mode |-> "LOITER", armed |-> TRUE, last_heartbeat |-> now]
                     ELSE telemetry[v]]
  /\ conn_shown' = [v \in DOMAIN conn_shown \cup Vehicles |->
                      IF v \in Vehicles THEN TRUE ELSE conn_shown[v]]
  /\ sim_timer_active' = TRUE
  /\ \E hd \in [Vehicles -> UNION {StartHeadings(v) : v \in Vehicles}] :
       /\ \A v \in Vehicles : hd[v] \in StartHeadings(v)
       /\ sim_nav' = [v \in Vehicles |-> NavAtStart(v, hd)]
  /\ sim_goto_target' = EmptyFn
  /\ sim_target_alt' = [v \in Vehicles |-> 1270]
  /\ sim_home' = [v \in Vehicles |-> <<0, 0>>]
  /\ sim_loiter_center' = [v \in Vehicles |-> <<0, 0>>]
  /\ sim_loiter_angle' = [v \in Vehicles |-> 0]
  /\ chicks_attached' = [v \in DOMAIN chicks_attached \cup Chicks |-> TRUE]
  /\ last_call' = [op |-> "start_simulation", ok |-> TRUE]
  /\ UNCHANGED <<conn_mode, connections, vehicle_types, mlrs_port, backup_connection,
                 receiver_running, receiver_thread>>
  /\ UNCHANGED <<envVars, main_pc, signals, handled, last_hb, arrived,
                 upVars, dlVars, cmd_sent, ncalls, chicks_released, swarm_active,
                 swarm_config>>

\* stop_simulation
StopSimulation ==
  /\ main_pc = "idle"
  /\ StopSimulationEffect
  /\ last_call' = [op |-> "stop_simulation", ok |-> TRUE]
  /\ UNCHANGED <<conn_mode, sim_attrs, connections, vehicle_types, telemetry, mlrs_port,
                 backup_connection, receiver_running, receiver_thread,
                 sim_missions, sim_current_wp>>
  /\ UNCHANGED <<envVars, main_pc, conn_shown, signals, handled, last_hb, arrived,
                 upVars, dlVars, cmdVars>>

\* 5 s pass
Tick ==
  /\ now < MaxTime
  /\ now' = now + 1
  /\ UNCHANGED <<mgrVars, transports, inbox, faulty, streams, threads, rx_todo, rx_read,
                 rx_snap,
                 obsVars, upVars, dlVars, cmdVars>>

NextConn ==
  \/ \E cfg \in (SUBSET Vehicles) \ {{}} : \E hb \in [cfg -> HbOutcomes] : ConnectSitl(cfg, hb)
  \/ \E hb \in {"none", "plane"} : ConnectMlrs(hb)
  \/ \E hb \in {"none", "plane"} : ConnectBackup(hb)
  \/ DisconnectBegin
  \/ DisconnectJoinReturns
  \/ DisconnectJoinTimeout
  \/ StartSimulation
  \/ StopSimulation
  \/ \E w \in DOMAIN threads : RecvCheck(w)
  \/ \E w \in DOMAIN threads : RecvPoll(w)
  \/ \E w \in DOMAIN threads : RecvSleep(w)

InitConn == InitMgr /\ InitEnv /\ InitObs /\ InitUp /\ InitDl /\ InitCmd

SpecConn == InitConn /\ [][NextConn]_vars

\* ===================================================== receiver traffic
\* a message arrives on an open transport
MsgArrives(t, m) ==
  /\ arrived < MaxMsgs
  /\ t \in DOMAIN transports /\ transports[t] = "open"
  /\ Len(inbox[t]) < MaxInbox
  /\ inbox' = [inbox EXCEPT ![t] = Append(@, m)]
  /\ arrived' = arrived + 1
  /\ UNCHANGED <<mgrVars, transports, faulty, streams, threads, rx_todo, rx_read, rx_snap,
                 now,
                 main_pc, last_call, conn_shown, signals, handled, last_hb,
                 upVars, dlVars, cmdVars>>

NextRecv ==
  \/ \E t \in DOMAIN transports : \E m \in MsgSamples : MsgArrives(t, m)
  \/ \E w \in DOMAIN threads : RecvCheck(w)
  \/ \E w \in DOMAIN threads : RecvPoll(w)
  \/ \E w \in DOMAIN threads : RecvSleep(w)
  \/ Tick

\* The manager after __init__ and a successful connect_backup: the first bird
\* is registered, with no telemetry record and no detected kind
InitMgrBackup ==
  /\ simulation_mode = TRUE /\ conn_mode = "simulation"
  /\ sim_attrs = FALSE /\ sim_timer_active = FALSE
  /\ connections = (FirstBird :> 1) /\ vehicle_types = EmptyFn
  /\ telemetry = EmptyFn
  /\ mlrs_port = NoTransport /\ backup_connection = 1
  /\ receiver_running = TRUE /\ receiver_thread = 1
  /\ sim_missions = EmptyFn /\ sim_current_wp = EmptyFn
  /\ transports = (1 :> "open")
  /\ SimFresh

\* connected vehicles with the receiver thread running; the transports of
\* `faulty` fail on every read
InitRecv ==
  /\ \/ InitMgrSitl(Vehicles, [v \in Vehicles |-> ConfigType(v)])
     \/ InitMgrBackup
  /\ inbox = [t \in DOMAIN transports |-> <<>>]
  /\ faulty \in SUBSET (DOMAIN transports)
  /\ streams = (IF conn_mode = "sitl" THEN DOMAIN transports ELSE {})
  /\ threads = (1 :> "check")
  /\ rx_todo = (1 :> <<>>)
  /\ rx_read = (1 :> {})
  /\ rx_snap = (1 :> {})
  /\ now = 0
  /\ InitObs /\ InitUp /\ InitDl /\ InitCmd

SpecRecv == InitRecv /\ [][NextRecv]_vars

\* ============================================================ set_mode
\* the mode names callers pass, and str.upper() of each
ModeNameSamples == {"AUTO", "rtl", "ALT_HOLD", "FBWA", "WARP"}

Upper(name) == IF name = "rtl" THEN "RTL" ELSE name

\* MAVLinkManager.set_mode(vehicle_id, mode)
SetMode(v, mode) ==
  /\ main_pc = "idle"
  /\ ncalls < MaxCalls
  /\ ncalls' = ncalls + 1
  /\ IF simulation_mode THEN
       IF v \in DOMAIN telemetry
       THEN /\ telemetry' = [telemetry EXCEPT ![v].mode = mode]
            /\ signals' = Append(signals, Signal("mode_changed", v, mode))
            /\ last_call' = [op |-> "set_mode", ok |-> TRUE]
            /\ UNCHANGED cmd_sent
       ELSE /\ last_call' = [op |-> "set_mode", ok |-> FALSE]
            /\ UNCHANGED <<telemetry, signals, cmd_sent>>
     ELSE IF v \notin DOMAIN connections THEN
       /\ last_call' = [op |-> "set_mode", ok |-> FALSE]
       /\ UNCHANGED <<telemetry, signals, cmd_sent>>
     ELSE
       LET modes == ModeTable(VehicleType(v)) IN
       IF Upper(mode) \notin DOMAIN modes \/ transports[connections[v]] = "closed"
       THEN \* unknown mode, or conn.set_mode raised
            /\ last_call' = [op |-> "set_mode", ok |-> FALSE]
            /\ UNCHANGED <<telemetry, signals, cmd_sent>>
       ELSE /\ cmd_sent' = Append(cmd_sent, [vid |-> v, cmd |-> "SET_MODE",
                                             arg |-> modes[Upper(mode)]])
            /\ last_call' = [op |-> "set_mode", ok |-> TRUE]
            /\ UNCHANGED <<telemetry, signals>>
  /\ UNCHANGED <<simulation_mode, conn_mode, sim_attrs, sim_timer_active, connections,
                 vehicle_types, mlrs_port, backup_connection, receiver_running,
                 receiver_thread, sim_missions, sim_current_wp>>
  /\ UNCHANGED <<envVars, main_pc, conn_shown, handled, last_hb, arrived, upVars, dlVars,
                 simVars>>

NextCmd ==
  \E v \in Vehicles : \E mode \in ModeNameSamples : SetMode(v, mode)

\* the manager as a command finds it: freshly constructed, simulating, or
\* connected to SITL vehicles of any reported kind
InitCmdSpec ==
  /\ \/ InitMgr /\ transports = EmptyFn
     \/ InitMgrSimulated
     \/ \E S \in (SUBSET Vehicles) \ {{}} : \E types \in [S -> {"plane", "copter"}] :
          InitMgrSitl(S, types)
  /\ InitEnvConfigured /\ InitObs /\ InitUp /\ InitDl /\ InitCmd

SpecCmd == InitCmdSpec /\ [][NextCmd]_vars

\* ===================================================== flight simulation
\* Positions are cells of 10 m (x east, y north) counted from the start
\* position; a vehicle that moves covers one cell per tick along one of the
\* eight compass directions. Headings are counted in units of 1.5 degree (240
\* to the circle), altitudes in decimetres, speeds in m/s.

Abs(n) == IF n < 0 THEN -n ELSE n
Sgn(n) == IF n < 0 THEN -1 ELSE IF n > 0 THEN 1 ELSE 0
Min(a, b) == IF a <= b THEN a ELSE b
Max(a, b) == IF a >= b THEN a ELSE b

\* the compass directions N, NE, E, SE, S, SW, W, NW as <<east, north>>
OctDir(o) == << <<0, 1>>, <<1, 1>>, <<1, 0>>, <<1, -1>>,
                <<0, -1>>, <<-1, -1>>, <<-1, 0>>, <<-1, 1>> >>[o + 1]

\* the compass direction nearest to heading h
HeadingOctant(h) == ((h + 15) \div 30) % 8

\* math.degrees(math.atan2(d_lon, d_lat)) % 360, to the nearest compass direction
Bearing(dx, dy) ==
  30 * (CHOOSE o \in 0..7 : OctDir(o) = <<Sgn(dx), Sgn(dy)>> \/ (dx = 0 /\ dy = 0 /\ o = 0))

\* _sim_distance, squared, in cells
Dist2(x1, y1, x2, y2) == (x2 - x1) * (x2 - x1) + (y2 - y1) * (y2 - y1)

\* dist < metres
Within(d2, metres) == d2 * 100 < metres * metres

\* A slip that only caps the speed
ClampSpeed_NoFloor(v, speed) == Min(speed, VehiclePerf(v).max_speed_ms)

\* config.py clamp_speed
ClampSpeed(v, speed) ==
  LET perf == VehiclePerf(v) IN
  IF ConfigType(v) = "plane" /\ speed < perf.min_speed_ms THEN perf.min_speed_ms
  ELSE Max(perf.min_speed_ms, Min(speed, perf.max_speed_ms))

\* _sim_fly_towards: the new [x, y, heading, groundspeed]
FlyTowards(x, y, tx, ty, speed0, is_plane, current_heading, v) ==
  LET speed == ClampSpeed(v, speed0)
      max_turn_per_tick == VehiclePerf(v).turn_per_tick
      desired_heading == Bearing(tx - x, ty - y)
      heading_diff == ((desired_heading - current_heading + 120) % 240) - 120
      limited == IF Abs(heading_diff) > max_turn_per_tick
                 THEN (IF heading_diff > 0 THEN max_turn_per_tick ELSE -max_turn_per_tick)
                 ELSE heading_diff
      heading == IF is_plane THEN (current_heading + limited) % 240 ELSE desired_heading
      \* move_dist = min(speed * 0.1, dist): one cell, or none on the target
      move == IF Dist2(x, y, tx, ty) = 0 THEN <<0, 0>> ELSE OctDir(HeadingOctant(heading))
  IN  [x |-> x + move[1], y |-> y + move[2], heading |-> heading, groundspeed |-> speed]

\* _sim_adjust_altitude
AdjustAltitude(current_alt, target_alt, perf) ==
  LET alt_diff == target_alt - current_alt IN
  IF Abs(alt_diff) < 5 THEN target_alt
  ELSE IF alt_diff > 0 THEN current_alt + Min(perf.climb_rate, alt_diff)
  ELSE current_alt - Min(perf.descent_rate, Abs(alt_diff))

\* orbit_radius * cos(angle) and orbit_radius * sin(angle), in cells
OrbitOffset(radius, angle) ==
  LET d == OctDir(HeadingOctant(angle))
      r == IF d[1] # 0 /\ d[2] # 0 THEN (radius * 7) \div 10 ELSE radius
  IN  <<r * d[1], r * d[2]>>

\* SwarmCalculator.offset_coordinate: right of and behind a heading
OffsetCoordinate(x, y, heading, offset_right, offset_back) ==
  LET right == OctDir(HeadingOctant((heading + 60) % 240))
      back == OctDir(HeadingOctant((heading + 120) % 240))
  IN  <<x + offset_right * right[1] + offset_back * back[1],
        y + offset_right * right[2] + offset_back * back[2]>>

\* SwarmCalculator.calculate_formation_position: [x, y, alt]
FormationPosition(bird, chick_index, config) ==
  IF config.formation \notin {"line", "trail"}
  THEN [x |-> bird.x, y |-> bird.y, alt |-> bird.alt + config.alt_offset]
  ELSE LET right_offset == IF config.formation = "line"
                           THEN (IF chick_index = 0 THEN -config.spacing ELSE config.spacing)
                           ELSE 0
           back_offset == IF config.formation = "trail"
                          THEN config.spacing * (chick_index + 1) ELSE 0
           pos == OffsetCoordinate(bird.x, bird.y, bird.heading, right_offset, back_offset)
       IN  [x |-> pos[1], y |-> pos[2], alt |-> bird.alt + config.alt_offset]

\* config.py: slot of a chick, minus one
ChickIndex(v) == 0

\* the part of the state one pass of _simulate_telemetry reads and writes
SimState ==
  [tel |-> telemetry, nav |-> sim_nav, goto |-> sim_goto_target, talt |-> sim_target_alt,
   center |-> sim_loiter_center, angle |-> sim_loiter_angle, cur |-> sim_current_wp,
   sig |-> signals]

\* the values the random.uniform(-a, a) draws of one pass are sampled at, as
\* multiples of a: all low, all centred or all high
JitterSamples == {-1, 0, 1}

\* a waypoint dict's lat / lon as cells from the start position, its alt in
\* decimetres and its optional speed
WpX(wp) == Trunc(wp.lon8, 9000)
WpY(wp) == Trunc(wp.lat8, 9000)
WpAlt(wp) == 10 * wp.alt
WpSpeed(wp) == IF "speed" \in DOMAIN wp THEN wp.speed ELSE 0

\* _sim_plane_orbit (the orbit angle advances by 0.0225 rad, one heading unit)
PlaneOrbit(st, v, u) ==
  LET perf == VehiclePerf(v)
      n == st.nav[v]
      center == IF v \in DOMAIN st.center THEN st.center[v] ELSE <<n.x, n.y>>
      angle == ((IF v \in DOMAIN st.angle THEN st.angle[v] ELSE 0) + 1) % 240
      off == OrbitOffset(perf.loiter_radius, angle)
  IN  [st EXCEPT !.angle = Put(st.angle, v, angle),
                 !.nav[v] = [n EXCEPT !.x = center[1] + off[1],
                                       !.y = center[2] + off[2],
                                       !.heading = (angle + 60) % 240,
                                       !.groundspeed = perf.loiter_speed_ms + u]]

\* "adjust altitude towards target" where a target altitude is set
TowardsTargetAlt(st, v) ==
  IF v \in DOMAIN st.talt
  THEN [st EXCEPT !.nav[v].alt = AdjustAltitude(@, st.talt[v], VehiclePerf(v))]
  ELSE st

\* _simulate_telemetry, mode LOITER (a copter's drift and heading jitter stay
\* below one cell and one heading unit)
LoiterStep(st, v, u) ==
  TowardsTargetAlt(
    IF ConfigType(v) = "plane" THEN PlaneOrbit(st, v, u)
    ELSE [st EXCEPT !.nav[v].groundspeed = u + 1], v)

\* _simulate_telemetry, mode RTL
RtlStep(st, v, u) ==
  LET is_plane == ConfigType(v) = "plane"
      perf == VehiclePerf(v)
      n == st.nav[v]
      home == IF v \in DOMAIN sim_home THEN sim_home[v] ELSE <<0, 0>>
      f == FlyTowards(n.x, n.y, home[1], home[2], perf.cruise_speed_ms, is_plane, n.heading, v)
      d2 == Dist2(f.x, f.y, home[1], home[2])
      rtl_alt == IF is_plane THEN 300 ELSE 150
      alt == IF Within(d2, 200) THEN AdjustAltitude(n.alt, rtl_alt, perf)
             ELSE AdjustAltitude(n.alt, IF v \in DOMAIN st.talt THEN st.talt[v] ELSE n.alt, perf)
      moved == [st EXCEPT !.nav[v] = [x |-> f.x, y |-> f.y, alt |-> alt,
                                      heading |-> f.heading, groundspeed |-> f.groundspeed]]
  IN  IF Within(d2, IF is_plane THEN 50 ELSE 10)
      THEN [moved EXCEPT !.tel[v].mode = "LOITER",
                         !.center = Put(st.center, v, home),
                         !.talt = Put(st.talt, v, rtl_alt),
                         !.sig = Append(st.sig, Signal("mode_changed", v, "LOITER"))]
      ELSE moved

\* _simulate_telemetry, mode GUIDED
GuidedStep(st, v, u) ==
  IF v \notin DOMAIN st.goto THEN TowardsTargetAlt(st, v)
  ELSE
  LET is_plane == ConfigType(v) = "plane"
      perf == VehiclePerf(v)
      n == st.nav[v]
      target == st.goto[v]
      f == FlyTowards(n.x, n.y, target.x, target.y, perf.cruise_speed_ms, is_plane, n.heading, v)
      alt == AdjustAltitude(n.alt, target.alt, perf)
      d2 == Dist2(f.x, f.y, target.x, target.y)
      moved == [st EXCEPT !.nav[v] = [x |-> f.x, y |-> f.y, alt |-> alt,
                                      heading |-> f.heading, groundspeed |-> f.groundspeed]]
  IN  IF Within(d2, IF is_plane THEN 50 ELSE 30) /\ Abs(alt - target.alt) < 50
      THEN [moved EXCEPT !.tel[v].mode = "LOITER",
                         !.center = Put(st.center, v, <<target.x, target.y>>),
                         !.talt = Put(st.talt, v, target.alt),
                         !.sig = Append(st.sig, Signal("mode_changed", v, "LOITER")),
                         !.goto = [w \in DOMAIN st.goto \ {v} |-> st.goto[w]]]
      ELSE moved

\* A slip that leaves the launch trigger out
ArrivalSignals_NoLaunch(v, wp_idx, wp) ==
  << Signal("waypoint_reached", v, wp_idx) >>

\* the notifications of an arrival at waypoint wp_idx: waypoint_reached and,
\* for a LAUNCH_CHICK waypoint, chick_launch_triggered
ArrivalSignals(v, wp_idx, wp) ==
  << Signal("waypoint_reached", v, wp_idx) >>
  \o (IF wp.type = "LAUNCH_CHICK"
      THEN << Signal("chick_launch_triggered", v, wp.chick_id) >>
      ELSE << >>)

\* _simulate_telemetry, mode AUTO
AutoStep(st, v, u) ==
  LET is_plane == ConfigType(v) = "plane"
      perf == VehiclePerf(v)
      n == st.nav[v]
      mission == IF v \in DOMAIN sim_missions THEN sim_missions[v] ELSE <<>>
      wp_idx == IF v \in DOMAIN st.cur THEN st.cur[v] ELSE 0
  IN  IF wp_idx < Len(mission) THEN
        LET wp == mission[wp_idx + 1] IN
        IF wp.type # "RTL" THEN
          LET target_alt == WpAlt(wp)
              speed == IF WpSpeed(wp) > 0 THEN WpSpeed(wp) ELSE perf.cruise_speed_ms
              f == FlyTowards(n.x, n.y, WpX(wp), WpY(wp), speed, is_plane, n.heading, v)
              alt == AdjustAltitude(n.alt, target_alt, perf)
              d2 == Dist2(f.x, f.y, WpX(wp), WpY(wp))
              moved == [st EXCEPT !.nav[v] = [x |-> f.x, y |-> f.y, alt |-> alt,
                                              heading |-> f.heading,
                                              groundspeed |-> f.groundspeed]]
          IN  IF Within(d2, IF is_plane THEN 40 ELSE 15) /\ Abs(alt - target_alt) < 100
              THEN [moved EXCEPT
                      !.talt = Put(st.talt, v, target_alt),
                      !.sig = st.sig \o ArrivalSignals(v, wp_idx, wp),
                      !.cur = Put(st.cur, v, wp_idx + 1)]
              ELSE moved
        ELSE [st EXCEPT !.tel[v].mode = "RTL",
                        !.sig = Append(st.sig, Signal("mode_changed", v, "RTL"))]
      ELSE \* mission complete
        TowardsTargetAlt(
          IF is_plane THEN PlaneOrbit(st, v, u)
          ELSE [st EXCEPT !.nav[v].groundspeed = u + 1], v)

\* _simulate_telemetry, the other modes (MANUAL, FBWA, ...): a plane keeps
\* moving along its heading, which wanders by up to 3 degrees
OtherStep(st, v, u) ==
  LET n == st.nav[v] IN
  IF ConfigType(v) = "plane"
  THEN LET heading == (n.heading + 2 * u) % 240
           move == OctDir(HeadingOctant(heading))
       IN  [st EXCEPT !.nav[v] = [n EXCEPT !.groundspeed = VehiclePerf(v).cruise_speed_ms + 2 * u,
                                            !.heading = heading,
                                            !.x = n.x + move[1],
                                            !.y = n.y + move[2]]]
  ELSE [st EXCEPT !.nav[v].heading = (n.heading + u) % 240]

\* _simulate_telemetry, the mode-specific behaviour
ModeStep(st, v, u) ==
  CASE st.tel[v].mode = "LOITER" -> LoiterStep(st, v, u)
    [] st.tel[v].mode = "RTL"    -> RtlStep(st, v, u)
    [] st.tel[v].mode = "GUIDED" -> GuidedStep(st, v, u)
    [] st.tel[v].mode = "AUTO"   -> AutoStep(st, v, u)
    [] OTHER                     -> OtherStep(st, v, u)

\* the size, in decimetres, at which the draw random.uniform(-0.5, 0.5) that
\* ends the altitude adjustment is sampled
AltJitter == 2

\* _simulate_telemetry, the altitude adjustments that end the pass
AltStep(st, v, u) ==
  LET n == st.nav[v]
      perf == VehiclePerf(v)
  IN  IF v \in DOMAIN st.talt
      THEN [st EXCEPT !.nav[v].alt =
              (IF st.tel[v].mode # "GUIDED" THEN AdjustAltitude(n.alt, st.talt[v], perf)
               ELSE n.alt) + AltJitter * u]
      ELSE LET target == IF n.alt > 100 THEN n.alt
                         ELSE IF ConfigType(v) = "plane" THEN 1000 ELSE 500
           IN  [st EXCEPT !.talt = Put(st.talt, v, target),
                          !.nav[v].alt = AdjustAltitude(n.alt, target, perf) + AltJitter * u]

\* swarm tracking takes a released chick over
SwarmTracks(st, v) ==
  /\ swarm_active /\ swarm_config.formation # None
  /\ Carrier(v) # None
  /\ v \in DOMAIN chicks_released /\ chicks_released[v]
  /\ Carrier(v) \in DOMAIN st.tel
  /\ st.tel[v].mode = "AUTO"

\* the swarm tracking step: towards the formation position of this tick
SwarmStep(st, v, u) ==
  LET n == st.nav[v]
      target == FormationPosition(st.nav[Carrier(v)], ChickIndex(v), swarm_config)
      f == FlyTowards(n.x, n.y, target.x, target.y, VehiclePerf(v).swarm_track_speed_ms,
                      FALSE, n.heading, v)
  IN  [st EXCEPT !.nav[v] = [x |-> f.x, y |-> f.y, alt |-> target.alt + 10 * u,
                             heading |-> f.heading, groundspeed |-> f.groundspeed]]

\* _simulate_telemetry, the loop body for vehicle v with the random draws u
StepVehicle(st, v, u) ==
  The({ IF Carrier(v) # None /\ v \in DOMAIN chicks_attached /\ chicks_attached[v]
        THEN \* an attached chick only copies its carrier's speed
             IF Carrier(v) \in DOMAIN st0.tel
             THEN [st0 EXCEPT !.nav[v].groundspeed = st0.nav[Carrier(v)].groundspeed]
             ELSE st0
        ELSE IF SwarmTracks(st0, v) THEN SwarmStep(st0, v, u)
        ELSE The({ AltStep(moved, v, u) : moved \in {ModeStep(st0, v, u)} })
        : st0 \in {[st EXCEPT !.tel[v].last_heartbeat = now]} })

\* the loop of _simulate_telemetry over `order`: each vehicle's step works
\* on the state the steps before it left
RECURSIVE StepAll(_, _, _)
StepAll(st, order, jit) ==
  IF order = <<>> THEN st
  ELSE The({ StepAll(next, Tail(order), jit) :
               next \in { IF Head(order) \in DOMAIN st.tel
                          THEN StepVehicle(st, Head(order), jit[Head(order)]) ELSE st } })

\* the simulated flights stay within the arena
InArena(nav) == \A v \in DOMAIN nav : Abs(nav[v].x) <= Arena /\ Abs(nav[v].y) <= Arena

\* one pass of _simulate_telemetry over all vehicles
SimPass ==
  /\ sim_timer_active
  /\ \E u \in JitterSamples :
     \E st \in {StepAll(SimState, VehicleOrder, [v \in Vehicles |-> u])} :
       /\ InArena(st.nav)
       /\ telemetry' = st.tel
       /\ sim_nav' = st.nav
       /\ sim_goto_target' = st.goto
       /\ sim_target_alt' = st.talt
       /\ sim_loiter_center' = st.center
       /\ sim_loiter_angle' = st.angle
       /\ sim_current_wp' = st.cur
       /\ signals' = st.sig
  /\ UNCHANGED <<simulation_mode, conn_mode, sim_attrs, sim_timer_active, connections,
                 vehicle_types, mlrs_port, backup_connection, receiver_running,
                 receiver_thread, sim_missions>>
  /\ UNCHANGED <<envVars, main_pc, last_call, conn_shown, handled, last_hb, arrived,
                 upVars, dlVars, cmd_sent, sim_home, chicks_attached,
                 chicks_released, swarm_active, swarm_config>>

\* the _sim_timer fires, counted with the calls
SimTick ==
  /\ ncalls < MaxCalls
  /\ ncalls' = ncalls + 1
  /\ SimPass

\* the _sim_timer keeps firing (every 100 ms, without end)
SimRun == SimPass /\ UNCHANGED ncalls

\* ================================================== vehicle commands
\* what a command reads and writes; a command yields [cs, ok, raised]
CmdState ==
  [tel |-> telemetry, sig |-> signals, sent |-> cmd_sent, talt |-> sim_target_alt]

Outcome(cs, ok, raised) == [cs |-> cs, ok |-> ok, raised |-> raised]

\* a command written to the vehicle's transport (conn.mav.*_send raises on a
\* closed transport)
SendCommand(cs, v, cmd, arg) ==
  IF transports[connections[v]] = "closed" THEN Outcome(cs, FALSE, FALSE)
  ELSE Outcome([cs EXCEPT !.sent = Append(@, [vid |-> v, cmd |-> cmd, arg |-> arg])],
               TRUE, FALSE)

\* MAVLinkManager.set_mode, as a step of a composite command
SetModeEff(cs, v, mode) ==
  IF simulation_mode THEN
    IF v \in DOMAIN cs.tel
    THEN Outcome([cs EXCEPT !.tel[v].mode = mode,
                            !.sig = Append(@, Signal("mode_changed", v, mode))], TRUE, FALSE)
    ELSE Outcome(cs, FALSE, FALSE)
  ELSE IF v \notin DOMAIN connections THEN Outcome(cs, FALSE, FALSE)
  ELSE LET modes == ModeTable(VehicleType(v)) IN
       IF Upper(mode) \notin DOMAIN modes THEN Outcome(cs, FALSE, FALSE)
       ELSE SendCommand(cs, v, "SET_MODE", modes[Upper(mode)])

\* MAVLinkManager.arm: param2 is 21196 for a forced arm
ArmEff(cs, v, arm, force) ==
  IF simulation_mode THEN
    IF v \in DOMAIN cs.tel
    THEN Outcome([cs EXCEPT !.tel[v].armed = arm,
                            !.sig = Append(@, Signal("armed_changed", v, arm))], TRUE, FALSE)
    ELSE Outcome(cs, FALSE, FALSE)
  ELSE IF v \notin DOMAIN connections THEN Outcome(cs, FALSE, FALSE)
  ELSE SendCommand(cs, v, IF arm THEN "ARM" ELSE "DISARM", IF force THEN 21196 ELSE 0)

\* MAVLinkManager.takeoff (altitude in metres; the _sim_* attributes exist
\* only after start_simulation)
TakeoffEff(cs, v, altitude) ==
  IF simulation_mode THEN
    IF v \in DOMAIN cs.tel
    THEN IF sim_attrs THEN Outcome([cs EXCEPT !.talt = Put(@, v, 10 * altitude)], TRUE, FALSE)
         ELSE Outcome(cs, FALSE, TRUE)
    ELSE Outcome(cs, TRUE, FALSE)
  ELSE IF v \notin DOMAIN connections THEN Outcome(cs, FALSE, FALSE)
  ELSE SendCommand(cs, v, "TAKEOFF", altitude)

\* A slip that commands GUIDED before the altitude change
ChangeAltitudeEff_Guided(cs, v, new_altitude) ==
  LET guided == SetModeEff(cs, v, "GUIDED").cs IN
  IF simulation_mode THEN
    IF v \in DOMAIN guided.tel
    THEN IF sim_attrs
         THEN Outcome([guided EXCEPT !.talt = Put(@, v, 10 * new_altitude)], TRUE, FALSE)
         ELSE Outcome(guided, FALSE, TRUE)
    ELSE Outcome(guided, TRUE, FALSE)
  ELSE IF v \notin DOMAIN connections THEN Outcome(guided, FALSE, FALSE)
  ELSE SendCommand(guided, v, "CHANGE_ALTITUDE", new_altitude)

\* MAVLinkManager.change_altitude
ChangeAltitudeEff(cs, v, new_altitude) ==
  IF simulation_mode THEN
    IF v \in DOMAIN cs.tel
    THEN IF sim_attrs THEN Outcome([cs EXCEPT !.talt = Put(@, v, 10 * new_altitude)], TRUE, FALSE)
         ELSE Outcome(cs, FALSE, TRUE)
    ELSE Outcome(cs, TRUE, FALSE)
  ELSE IF v \notin DOMAIN connections THEN Outcome(cs, FALSE, FALSE)
  ELSE SendCommand(cs, v, "CHANGE_ALTITUDE", new_altitude)

\* the frame of a command call that leaves the command state cs
CommandFrame(cs) ==
  /\ main_pc = "idle"
  /\ ncalls < MaxCalls
  /\ ncalls' = ncalls + 1
  /\ telemetry' = cs.tel
  /\ signals' = cs.sig
  /\ cmd_sent' = cs.sent
  /\ sim_target_alt' = cs.talt
  /\ UNCHANGED <<simulation_mode, conn_mode, sim_attrs, sim_timer_active, connections,
                 vehicle_types, mlrs_port, backup_connection, receiver_running,
                 receiver_thread, sim_missions, sim_current_wp>>
  /\ UNCHANGED <<envVars, main_pc, conn_shown, handled, last_hb, arrived, upVars, dlVars,
                 sim_nav, sim_goto_target, sim_home, sim_loiter_center, sim_loiter_angle,
                 chicks_attached, chicks_released, swarm_active, swarm_config>>

\* a command call that returns outcome r
CommandReturns(op, r) ==
  /\ CommandFrame(r.cs)
  /\ last_call' = [op |-> op, ok |-> r.ok]

Arm(v, arm, force) == CommandReturns("arm", ArmEff(CmdState, v, arm, force))

ChangeAltitude(v, new_altitude) ==
  CommandReturns("change_altitude", ChangeAltitudeEff(CmdState, v, new_altitude))

\* MAVLinkManager.quick_fly(vehicle_id, altitude); gps_ready and armed are
\* what _wait_for_gps and _verify_armed return (both are only logged)
QuickFly(v, altitude, gps_ready, armed) ==
  LET vehicle_type == IF v \in DOMAIN vehicle_types THEN vehicle_types[v] ELSE "copter"
      mode_set == SetModeEff(CmdState, v, "GUIDED")
      arming == ArmEff(mode_set.cs, v, TRUE, TRUE)
      leaving == IF vehicle_type = "copter" THEN TakeoffEff(arming.cs, v, altitude)
                 ELSE Outcome(arming.cs, TRUE, FALSE)
  IN  IF v \notin DOMAIN connections
      THEN CommandReturns("quick_fly", Outcome(CmdState, FALSE, FALSE))
      ELSE CommandReturns("quick_fly", Outcome(leaving.cs, ~leaving.raised, leaving.raised))

\* rtl_all, the loop over get_all_vehicles().keys(): [cs, ok, tried]
RECURSIVE RtlEach(_, _)
RtlEach(acc, order) ==
  IF order = <<>> THEN acc
  ELSE LET vid == Head(order) IN
       IF vid \in DOMAIN connections \/ vid \in DOMAIN acc.cs.tel
       THEN LET r == SetModeEff(acc.cs, vid, "RTL") IN
            RtlEach([cs |-> r.cs, ok |-> acc.ok /\ r.ok, tried |-> Append(acc.tried, vid)],
                    Tail(order))
       ELSE RtlEach(acc, Tail(order))

\* MAVLinkManager.rtl_all; `tried` lists the vehicles rtl was called for
RtlAll ==
  LET r == RtlEach([cs |-> CmdState, ok |-> TRUE, tried |-> <<>>], VehicleOrder) IN
  /\ CommandFrame(r.cs)
  /\ last_call' = [op |-> "rtl_all", ok |-> r.ok, tried |-> r.tried]

\* MAVLinkManager.goto: target is [x, y, alt] (cells, cells, metres)
GotoEff(cs, v, target) ==
  IF simulation_mode THEN
    IF sim_attrs THEN Outcome([cs EXCEPT !.talt = Put(@, v, 10 * target.alt)], TRUE, FALSE)
    ELSE Outcome(cs, FALSE, TRUE)
  ELSE IF v \notin DOMAIN connections THEN Outcome(cs, FALSE, FALSE)
  ELSE SendCommand(cs, v, "GOTO", target.alt)

Goto(v, target) ==
  LET r == GotoEff(CmdState, v, target) IN
  /\ main_pc = "idle"
  /\ ncalls < MaxCalls
  /\ ncalls' = ncalls + 1
  /\ sim_goto_target' = IF simulation_mode /\ sim_attrs
                        THEN Put(sim_goto_target, v,
                                 [x |-> target.x, y |-> target.y, alt |-> 10 * target.alt])
                        ELSE sim_goto_target
  /\ sim_target_alt' = r.cs.talt
  /\ cmd_sent' = r.cs.sent
  /\ last_call' = [op |-> "goto", ok |-> r.ok]
  /\ UNCHANGED <<mgrVars, envVars, main_pc, conn_shown, signals, handled, last_hb, arrived,
                 upVars, dlVars, sim_nav, sim_home, sim_loiter_center, sim_loiter_angle,
                 chicks_attached, chicks_released, swarm_active, swarm_config>>

\* the frame of the swarm bookkeeping calls
SwarmFrame ==
  /\ main_pc = "idle"
  /\ ncalls < MaxCalls
  /\ ncalls' = ncalls + 1
  /\ UNCHANGED <<mgrVars, envVars, obsVars, upVars, dlVars, cmd_sent, sim_nav,
                 sim_goto_target, sim_target_alt, sim_home, sim_loiter_center,
                 sim_loiter_angle>>

\* MAVLinkManager.mark_chick_released
MarkChickReleased(chick_id) ==
  /\ chicks_released' = Put(chicks_released, chick_id, TRUE)
  /\ chicks_attached' = Put(chicks_attached, chick_id, FALSE)
  /\ UNCHANGED <<swarm_active, swarm_config>>
  /\ SwarmFrame

\* MAVLinkManager.activate_swarm
ActivateSwarm(config) ==
  /\ swarm_config' = config
  /\ swarm_active' = TRUE
  /\ UNCHANGED <<chicks_released, chicks_attached>>
  /\ SwarmFrame

\* MAVLinkManager.deactivate_swarm
DeactivateSwarm ==
  /\ swarm_active' = FALSE
  /\ swarm_config' = NoSwarmConfig
  /\ UNCHANGED <<chicks_released, chicks_attached>>
  /\ SwarmFrame

\* ------------------------------------------------- simulated flights
\* a waypoint dict at cell (x, y) with altitude alt (metres)
SimWp(x, y, alt) ==
  [type |-> "WAYPOINT", lat8 |-> 9000 * y, lon8 |-> 9000 * x, alt |-> alt, chick_id |-> ""]

RtlWp == [type |-> "RTL", lat8 |-> 0, lon8 |-> 0, alt |-> 0, chick_id |-> ""]

\* a waypoint dict that carries a speed
SlowWp(x, y, alt, speed) ==
  [type |-> "WAYPOINT", lat8 |-> 9000 * y, lon8 |-> 9000 * x, alt |-> alt, chick_id |-> "",
   speed |-> speed]

\* missions of two waypoints and a terminal RTL: near the start altitude of
\* 127 m, and well below it
SimMissions ==
  { << SimWp(2, 2, 120), SimWp(-1, 1, 120), RtlWp >>,
    << SimWp(2, 2, 50), SimWp(-1, 1, 50), RtlWp >> }

\* the rotary vehicle whose mission flight is followed
AutoVehicle == "chick1.1"

\* One mission flight: after start_simulation the mission wps was uploaded to
\* the chick, the chick was released from its carrier or not, and AUTO was
\* commanded; from then on the timer fires.
InitAuto ==
  /\ simulation_mode = TRUE /\ conn_mode = "simulation"
  /\ sim_attrs = TRUE /\ sim_timer_active = TRUE
  /\ connections = EmptyFn /\ vehicle_types = EmptyFn
  /\ telemetry = [v \in Vehicles |->
                    [mode |-> IF v = AutoVehicle THEN "AUTO" ELSE "LOITER",
                     armed |-> TRUE, last_heartbeat |-> 0]]
  /\ mlrs_port = NoTransport /\ backup_connection = NoTransport
  /\ receiver_running = FALSE /\ receiver_thread = NoThread
  /\ \E wps \in SimMissions : sim_missions = (AutoVehicle :> wps)
  /\ sim_current_wp = (AutoVehicle :> 0)
  /\ transports = EmptyFn
  /\ \E released \in SUBSET {AutoVehicle} : SimStarted(released)
  /\ InitEnvConfigured /\ InitUp /\ InitDl /\ InitCmd
  /\ main_pc = "idle"
  /\ last_call = [op |-> "set_mode", ok |-> TRUE]
  /\ conn_shown = EmptyFn
  /\ signals = << Signal("mode_changed", AutoVehicle, "AUTO") >>
  /\ handled = EmptyFn
  /\ last_hb = EmptyFn
  /\ arrived = 0

SpecAuto == InitAuto /\ [][SimRun]_vars /\ WF_vars(SimRun)

\* ---------------------------------------- the simulator under command
\* the modes commanded: the navigating ones and a non-navigating one
SimModeSamples == {"GUIDED", "AUTO", "RTL", "FBWA"}

\* goto targets, at the start altitude: 60 m east of the start position, and
\* within the arrival distance of it
GotoSamples == { [x |-> 6, y |-> 0, alt |-> 127], [x |-> 1, y |-> 1, alt |-> 127] }

\* the missions uploaded to the fixed-wing vehicle; one waypoint asks for a
\* speed below the vehicle's minimum
SimFlights == SimMissions \cup { << SlowWp(3, 3, 120, 5), RtlWp >> }

\* SwarmConfig(formation, spacing 50 m, alt_offset -10 m)
SwarmConfigs ==
  { [formation |-> f, spacing |-> 5, alt_offset |-> -100] : f \in {"trail", "line"} }

NextSim ==
  \/ SimTick
  \/ \E v \in Vehicles : \E mode \in SimModeSamples : SetMode(v, mode)
  \/ \E v \in Vehicles : \E target \in GotoSamples : Goto(v, target)
  \/ \E wps \in SimFlights : UploadCall(FirstBird, wps)
  \/ UploadReturn
  \/ \E c \in Chicks : MarkChickReleased(c)
  \/ \E config \in SwarmConfigs : ActivateSwarm(config)
  \/ DeactivateSwarm

InitSim ==
  /\ \E released \in SUBSET Chicks : InitMgrSimulatedWith(released)
  /\ InitEnvConfigured /\ InitObs /\ InitUp /\ InitDl /\ InitCmd

SpecSim == InitSim /\ [][NextSim]_vars

\* ------------------------------------------- commands over any link
\* the vehicle ids callers pass, and the altitudes (metres)
OpsVehicles == Vehicles \cup {OtherVehicle}

AltSamples == {50}

\* the vehicle_configs dicts passed to connect_sitl: the configured endpoints,
\* and an endpoint under an id of its own
SitlDicts == { Vehicles, {OtherVehicle} }

\* On a manager freshly constructed or simulating, links are opened (SITL
\* endpoints, the MLRS bus, the backup link) and commands are called.
NextOps ==
  \/ \E cfg \in SitlDicts : \E hb \in [cfg -> HbOutcomes] : ConnectSitl(cfg, hb)
  \/ \E hb \in {"none", "plane"} : ConnectMlrs(hb)
  \/ \E hb \in {"none", "plane"} : ConnectBackup(hb)
  \/ \E v \in OpsVehicles : \E altitude \in AltSamples : \E gps_ready, armed \in BOOLEAN :
       QuickFly(v, altitude, gps_ready, armed)
  \/ \E v \in OpsVehicles : \E force \in BOOLEAN : Arm(v, TRUE, force)
  \/ RtlAll

InitOps ==
  \/ InitConn
  \/ InitMgrSimulated /\ InitEnvConfigured /\ InitObs /\ InitUp /\ InitDl /\ InitCmd

SpecOps == InitOps /\ [][NextOps]_vars

\* --------------------------------------------- missions with a launch
\* a LAUNCH_CHICK waypoint dict
LaunchWp(x, y, alt, chick_id) ==
  [type |-> "LAUNCH_CHICK", lat8 |-> 9000 * y, lon8 |-> 9000 * x, alt |-> alt,
   chick_id |-> chick_id]

\* missions that release chick1.1 at the first or at the second waypoint, and
\* one whose first waypoint lies far below the start altitude
LaunchFlights ==
  { << LaunchWp(2, 2, 120, "chick1.1"), SimWp(-1, 1, 120), RtlWp >>,
    << SimWp(2, 2, 120), LaunchWp(-1, 1, 120, "chick1.1"), RtlWp >>,
    << SimWp(2, 2, 50), RtlWp >> }

\* missions are uploaded to the simulated bird, also anew during a flight,
\* AUTO and LOITER are commanded, and the timer fires
NextMission ==
  \/ SimTick
  \/ \E mode \in {"AUTO", "LOITER"} : SetMode(FirstBird, mode)
  \/ \E wps \in LaunchFlights : UploadCall(FirstBird, wps)
  \/ UploadReturn

InitMission ==
  /\ InitMgrSimulated
  /\ InitEnvConfigured /\ InitObs /\ InitUp /\ InitDl /\ InitCmd

SpecMission == InitMission /\ [][NextMission]_vars

\* ------------------------------------- releases and simulation restarts
\* the simulation is started and stopped, chicks are marked released, and
\* the timer fires
NextChick ==
  \/ StartSimulation
  \/ StopSimulation
  \/ \E c \in Chicks : MarkChickReleased(c)
  \/ SimTick

SpecChick == InitMission /\ [][NextChick]_vars

\* ------------------------------------------- the GUIDED leg, to scale
\* In this part positions are counted in centimetres east and north of the
\* start position, so that a tick's move of speed * 0.1 s is to scale with
\* the turn of 1.5 degree per tick; headings are counted in units of 1.5
\* degree and altitudes in decimetres, as before.

\* 1000 * sin of 0, 1.5, 3, ..., 90 degrees
SinTable ==
  << 0, 26, 52, 78, 105, 131, 156, 182, 208, 233, 259, 284, 309, 334, 358, 383,
     407, 431, 454, 477, 500, 522, 545, 566, 588, 609, 629, 649, 669, 688, 707,
     725, 743, 760, 777, 793, 809, 824, 839, 853, 866, 879, 891, 903, 914, 924,
     934, 943, 951, 959, 966, 972, 978, 983, 988, 991, 995, 997, 999, 1000, 1000 >>

\* 1000 * math.sin and 1000 * math.cos of heading h
Sin(h) ==
  LET q == h % 120
      s == IF q <= 60 THEN SinTable[q + 1] ELSE SinTable[121 - q]
  IN  IF h % 240 >= 120 THEN -s ELSE s

Cos(h) == Sin((h + 60) % 240)

\* math.degrees(math.atan2(d_lon, d_lat)) % 360 for a target dx east and dy
\* north, to the nearest heading unit. The differences are taken in degrees
\* of longitude and latitude; at the start latitude of 52 degrees a degree
\* of longitude is cos(52) = 8/13 of a degree of latitude on the ground.
DegreeBearing(dx, dy) ==
  LET Along(h) == 13 * dx * Sin(h % 240) + 8 * dy * Cos(h % 240) IN
  IF dx = 0 /\ dy = 0 THEN 0
  ELSE CHOOSE h \in 0..239 :
         Along(h) > 0 /\ Along(h) >= Along(h + 1) /\ Along(h) >= Along(h + 239)

\* move_dist = min(speed * 0.1, dist), in centimetres
MoveDist(d2, speed) ==
  IF d2 >= (10 * speed) * (10 * speed) THEN 10 * speed
  ELSE CHOOSE r \in 0..(10 * speed) : r * r <= d2 /\ d2 < (r + 1) * (r + 1)

\* _sim_fly_towards, to scale: the new [x, y, heading, groundspeed]
FlyTowardsToScale(x, y, tx, ty, speed0, is_plane, current_heading, v) ==
  LET speed == ClampSpeed(v, speed0)
      max_turn_per_tick == VehiclePerf(v).turn_per_tick
  IN  The({ LET heading_diff == ((desired_heading - current_heading + 120) % 240) - 120
                limited == IF Abs(heading_diff) > max_turn_per_tick
                           THEN (IF heading_diff > 0 THEN max_turn_per_tick
                                 ELSE -max_turn_per_tick)
                           ELSE heading_diff
            IN  The({ [x |-> x + Trunc(move_dist * Sin(heading), 1000),
                       y |-> y + Trunc(move_dist * Cos(heading), 1000),
                       heading |-> heading, groundspeed |-> speed]
                      : heading \in { IF is_plane THEN (current_heading + limited) % 240
                                      ELSE desired_heading },
                        move_dist \in { MoveDist(Dist2(x, y, tx, ty), speed) } })
            : desired_heading \in { DegreeBearing(tx - x, ty - y) } })

\* _simulate_telemetry, mode GUIDED with a goto target, to scale
GuidedLegStep(st, v, u) ==
  LET is_plane == ConfigType(v) = "plane"
      perf == VehiclePerf(v)
      n == st.nav[v]
      target == st.goto[v]
      arrival_dist == IF is_plane THEN 50 ELSE 30
      alt == AdjustAltitude(n.alt, target.alt, perf)
  IN  The({ IF Dist2(f.x, f.y, target.x, target.y) < (100 * arrival_dist) * (100 * arrival_dist)
               /\ Abs(alt - target.alt) < 50
            THEN [st EXCEPT !.nav[v] = [x |-> f.x, y |-> f.y, alt |-> alt,
                                        heading |-> f.heading, groundspeed |-> f.groundspeed],
                            !.tel[v].mode = "LOITER",
                            !.center = Put(st.center, v, <<target.x, target.y>>),
                            !.talt = Put(st.talt, v, target.alt),
                            !.sig = Append(st.sig, Signal("mode_changed", v, "LOITER")),
                            !.goto = [w \in DOMAIN st.goto \ {v} |-> st.goto[w]]]
            ELSE [st EXCEPT !.nav[v] = [x |-> f.x, y |-> f.y, alt |-> alt,
                                        heading |-> f.heading, groundspeed |-> f.groundspeed]]
            : f \in { FlyTowardsToScale(n.x, n.y, target.x, target.y, perf.cruise_speed_ms,
                                        is_plane, n.heading, v) } })

\* the vehicle whose goto is followed
GotoVehicle == FirstBird

\* the loop of _simulate_telemetry over `order` while GotoVehicle flies its
\* GUIDED leg
RECURSIVE StepAllLeg(_, _, _)
StepAllLeg(st, order, u) ==
  IF order = <<>> THEN st
  ELSE The({ StepAllLeg(next, Tail(order), u) :
               next \in { IF Head(order) = GotoVehicle
                          THEN The({ AltStep(moved, GotoVehicle, u) :
                                       moved \in { GuidedLegStep(
                                         [st EXCEPT !.tel[GotoVehicle].last_heartbeat = now],
                                         GotoVehicle, u) } })
                          ELSE StepVehicle(st, Head(order), u) } })

\* the passes of _simulate_telemetry from goto to the arrival
GuidedLeg ==
  /\ sim_timer_active
  /\ telemetry[GotoVehicle].mode = "GUIDED"
  /\ GotoVehicle \in DOMAIN sim_goto_target
  /\ \E u \in JitterSamples :
     \E st \in {StepAllLeg(SimState, VehicleOrder, u)} :
       /\ telemetry' = st.tel
       /\ sim_nav' = st.nav
       /\ sim_goto_target' = st.goto
       /\ sim_target_alt' = st.talt
       /\ sim_loiter_center' = st.center
       /\ sim_loiter_angle' = st.angle
       /\ sim_current_wp' = st.cur
       /\ signals' = st.sig
  /\ UNCHANGED <<simulation_mode, conn_mode, sim_attrs, sim_timer_active, connections,
                 vehicle_types, mlrs_port, backup_connection, receiver_running,
                 receiver_thread, sim_missions>>
  /\ UNCHANGED <<envVars, main_pc, last_call, conn_shown, handled, last_hb, arrived,
                 upVars, dlVars, cmd_sent, sim_home, chicks_attached,
                 chicks_released, swarm_active, swarm_config, ncalls>>

\* goto targets at the start altitude: 68.75 m east of the start position
\* (18 m/s at 15 degrees per second turns on a circle of 68.75 m), 200 m
\* north of it, and 150 m west and 50 m south of it
LegTargets ==
  { [x |-> 6875, y |-> 0, alt |-> 1270],
    [x |-> 0, y |-> 20000, alt |-> 1270],
    [x |-> -15000, y |-> -5000, alt |-> 1270] }

\* One goto: after start_simulation, with the chick still attached, GUIDED
\* was commanded to the fixed-wing vehicle and then goto; from then on the
\* timer fires.
InitGoto ==
  /\ simulation_mode = TRUE /\ conn_mode = "simulation"
  /\ sim_attrs = TRUE /\ sim_timer_active = TRUE
  /\ connections = EmptyFn /\ vehicle_types = EmptyFn
  /\ telemetry = [v \in Vehicles |->
                    [mode |-> IF v = GotoVehicle THEN "GUIDED" ELSE "LOITER",
                     armed |-> TRUE, last_heartbeat |-> 0]]
  /\ mlrs_port = NoTransport /\ backup_connection = NoTransport
  /\ receiver_running = FALSE /\ receiver_thread = NoThread
  /\ sim_missions = EmptyFn /\ sim_current_wp = EmptyFn
  /\ transports = EmptyFn
  /\ \E hd \in [Vehicles -> UNION {StartHeadings(v) : v \in Vehicles}] :
       /\ \A v \in Vehicles : hd[v] \in StartHeadings(v)
       /\ sim_nav = [v \in Vehicles |-> NavAtStart(v, hd)]
  /\ \E target \in LegTargets :
       /\ sim_goto_target = (GotoVehicle :> target)
       /\ sim_target_alt = [v \in Vehicles |-> IF v = GotoVehicle THEN target.alt ELSE 1270]
  /\ sim_home = [v \in Vehicles |-> <<0, 0>>]
  /\ sim_loiter_center = [v \in Vehicles |-> <<0, 0>>]
  /\ sim_loiter_angle = [v \in Vehicles |-> 0]
  /\ chicks_attached = [v \in Chicks |-> TRUE]
  /\ chicks_released = EmptyFn
  /\ swarm_active = FALSE
  /\ swarm_config = NoSwarmConfig
  /\ InitEnvConfigured /\ InitUp /\ InitDl /\ InitCmd
  /\ main_pc = "idle"
  /\ last_call = [op |-> "goto", ok |-> TRUE]
  /\ conn_shown = EmptyFn
  /\ signals = << Signal("mode_changed", GotoVehicle, "GUIDED") >>
  /\ handled = EmptyFn
  /\ last_hb = EmptyFn
  /\ arrived = 0

SpecGoto == InitGoto /\ [][GuidedLeg]_vars /\ WF_vars(GuidedLeg)

\* ========================================= transfers beside the receiver
\* what a vehicle sends while a mission is uploaded to it
RaceMsgs ==
  { Msg("MISSION_REQUEST", 0, FALSE, FALSE), Msg("HEARTBEAT", 5, FALSE, FALSE) }

\* upload_mission, on the caller's thread, inside conn.recv_match(type=
\* [MISSION_REQUEST_INT, MISSION_REQUEST], blocking=True, timeout=5): the next
\* message is taken off the transport; a request is answered with item up_i,
\* any other message is passed over
UploadReadRequest ==
  LET conn == connections[up_vid] IN
  /\ up_pc = "wait_req"
  /\ up_vid \in DOMAIN connections
  /\ transports[conn] = "open" /\ inbox[conn] # <<>>
  /\ inbox' = [inbox EXCEPT ![conn] = Tail(@)]
  /\ IF Head(inbox[conn]).type = "MISSION_REQUEST"
     THEN /\ up_rx' = Append(up_rx, RxMsg("REQ", up_i, -1))
          /\ up_tx' = Append(up_tx, TxMsg("ITEM", up_i, up_i, 0))
          /\ up_i' = up_i + 1
          /\ up_pc' = IF up_i + 1 = Len(up_items) THEN "wait_ack" ELSE "wait_req"
     ELSE UNCHANGED <<up_rx, up_tx, up_i, up_pc>>
  /\ UNCHANGED <<up_vid, up_wps, up_items, up_result>>
  /\ UNCHANGED <<mgrVars, transports, faulty, streams, threads, rx_todo, rx_read, rx_snap,
                 now,
                 main_pc, last_call, conn_shown, signals, handled, last_hb, arrived,
                 dlVars, cmdVars>>

\* an upload to the first bird over its link while the receiver thread runs
\* and the vehicle's messages arrive
NextRace ==
  \/ UploadCall(FirstBird, << RtlWp >>)
  \/ \E m \in RaceMsgs : MsgArrives(connections[FirstBird], m)
  \/ UploadReadRequest
  \/ UploadRequestTimeout
  \/ \E a \in {MAV_MISSION_ACCEPTED, MAV_MISSION_ERROR} : UploadRecvAck(a)
  \/ UploadAckTimeout
  \/ UploadReturn
  \/ \E w \in DOMAIN threads : RecvCheck(w)
  \/ \E w \in DOMAIN threads : RecvPoll(w)
  \/ \E w \in DOMAIN threads : RecvSleep(w)

InitRace == InitRecv /\ faulty = {}

SpecRace == InitRace /\ [][NextRace]_vars

\* mode names for set_mode: one both kinds have, one only a plane has
KindModes == {"AUTO", "FBWA"}

\* MAVLinkManager.takeoff(vehicle_id, altitude)
Takeoff(v, altitude) == CommandReturns("takeoff", TakeoffEff(CmdState, v, altitude))

\* every command operation, on a manager freshly constructed or simulating,
\* and after stop_simulation
NextCalls ==
  \/ SetMode(FirstBird, "AUTO")
  \/ Arm(FirstBird, TRUE, FALSE)
  \/ \E target \in GotoSamples : Goto(FirstBird, target)
  \/ \E altitude \in AltSamples : Takeoff(FirstBird, altitude)
  \/ \E altitude \in AltSamples : ChangeAltitude(FirstBird, altitude)
  \/ UploadCall(FirstBird, << RtlWp >>)
  \/ UploadReturn
  \/ DownloadCall(FirstBird)
  \/ DownloadReturn
  \/ StopSimulation

InitCalls ==
  /\ \/ InitMgr /\ transports = EmptyFn
     \/ InitMgrSimulated
  /\ InitEnvConfigured /\ InitObs /\ InitUp /\ InitDl /\ InitCmd

SpecCalls == InitCalls /\ [][NextCalls]_vars

\* SITL endpoints are connected, with a first heartbeat of either kind or
\* none, and modes are set
NextKind ==
  \/ \E cfg \in SitlDicts : \E hb \in [cfg -> HbOutcomes] : ConnectSitl(cfg, hb)
  \/ \E v \in OpsVehicles : \E mode \in KindModes : SetMode(v, mode)

SpecKind == InitConn /\ [][NextKind]_vars

\* change_altitude and set_mode on a manager freshly constructed, simulating,
\* or connected to SITL vehicles of any reported kind
NextAlt ==
  \/ \E v \in OpsVehicles : \E altitude \in AltSamples : ChangeAltitude(v, altitude)
  \/ \E v \in Vehicles : \E mode \in ModeNameSamples : SetMode(v, mode)

SpecAlt == InitCmdSpec /\ [][NextAlt]_vars

\* ------------------------------------------------ claims on upload_mission
IsItem(m) == m.t = "ITEM"
IsReq(m) == m.t = "REQ"
UploadFailureMsg(m) ==
  m.t = "TIMEOUT" \/ (m.t = "ACK" /\ m.type # MAV_MISSION_ACCEPTED)

\* C1: over a real link upload_mission reports success only if a request
\* arrived for every item and the final acknowledgment arrived and is
\* 'accepted'; a timeout (or a non-accepted acknowledgment) is the last thing
\* the upload receives: it ends the call with failure, and no item is sent
\* that does not answer a request received before it.
C1_UploadAllOrFail ==
  /\ (up_pc = "done" /\ up_result = "ok" /\ ~simulation_mode) =>
        /\ Len(up_rx) = Len(up_items) + 1
        /\ \A k \in 1..Len(up_items) : IsReq(up_rx[k])
        /\ Last(up_rx).t = "ACK" /\ Last(up_rx).type = MAV_MISSION_ACCEPTED
        /\ Count(up_tx, IsItem) = Len(up_items)
  /\ \A k \in DOMAIN up_rx :
        UploadFailureMsg(up_rx[k]) =>
          /\ k = Len(up_rx)
          /\ up_pc = "done" /\ up_result = "fail"
          /\ last_call = [op |-> "upload_mission", ok |-> FALSE]
  /\ Count(up_tx, IsItem) = Count(up_rx, IsReq)

\* a request timed out after some items were sent, with items still unsent
C1_Witness ==
  /\ up_pc = "done" /\ up_result = "fail"
  /\ up_rx # <<>> /\ Last(up_rx).t = "TIMEOUT"
  /\ Count(up_tx, IsItem) >= 1
  /\ Count(up_tx, IsItem) < Len(up_items)

\* C2: upload_mission is a pull handshake: every item sent carries the
\* sequence number of the request it answers (also when the vehicle repeats
\* or reorders a request), after the clear and the count announcement.
C2_ItemCarriesRequestedSeq ==
  \A k \in DOMAIN up_tx :
    IsItem(up_tx[k]) =>
      /\ up_tx[k].seq = up_tx[k].ans
      /\ k > 2 /\ up_tx[1].t = "CLEAR" /\ up_tx[2].t = "COUNT"

\* ---------------------------------------------- claims on download_mission
\* C3: over a real link download_mission returns either failure or the
\* complete list: a returned mission holds exactly the items with index
\* 1..count-1 in index order, the acknowledgment is the last message sent,
\* and a timed-out count or item makes the download report failure.
C3_DownloadCompleteOrFail ==
  (dl_pc = "done" /\ ~simulation_mode) =>
    /\ dl_result = "mission" =>
         /\ Len(dl_mission) = dl_count - 1
         /\ \A k \in DOMAIN dl_mission : dl_mission[k].name = k
         /\ Last(dl_tx).t = "ACK"
    /\ (\E k \in DOMAIN dl_rx : dl_rx[k].t = "TIMEOUT") => dl_result = None

\* ------------------------------------------- claims on the link lifecycle
\* a connect call whose endpoints never send a heartbeat
FailedConnect ==
  \/ \E cfg \in (SUBSET Vehicles) \ {{}} : ConnectSitl(cfg, [v \in cfg |-> "none"])
  \/ ConnectMlrs("none")
  \/ ConnectBackup("none")

\* C4: a connect call whose endpoint never sends a heartbeat returns failure
\* and leaves the manager as it was: no connection or telemetry record is
\* registered, the receiver loop is not started, and the link mode, the
\* simulation flag and the running simulation are unchanged.
C4_FailedConnectNoSideEffects ==
  [][FailedConnect =>
       /\ ~last_call'.ok
       /\ UNCHANGED <<connections, telemetry, vehicle_types, mlrs_port, backup_connection,
                      receiver_running, receiver_thread, threads,
                      conn_mode, simulation_mode, sim_timer_active>>]_vars

\* C6: at every point of any sequence of connect_* and disconnect_all calls
\* at most one receiver worker is running.
C6_AtMostOneReceiver == Cardinality(AliveThreads) <= 1

\* C7: when disconnect_all returns the receiver loop has stopped, every
\* transport a connect call registered (per vehicle, shared bus, backup) is
\* closed, and every vehicle is marked disconnected.
C7_DisconnectTearsDown ==
  [][(main_pc = "join" /\ main_pc' = "idle") =>
       /\ AliveThreads' = {}
       /\ \A t \in RegisteredTransports : transports'[t] = "closed"
       /\ \A v \in DOMAIN conn_shown' : ~conn_shown'[v]
       /\ \A v \in DOMAIN telemetry' : ~IsConnected(v)']_vars

\* C9: every transport a successful connect call registered is read once in
\* each receiver sweep (the shared MLRS bus included).
C9_SweepReadsEveryTransport ==
  [][\A w \in DOMAIN threads :
       (threads[w] = "sweep" /\ threads'[w] = "check") =>
         rx_snap[w] \subseteq rx_read[w]]_vars

\* ------------------------------------------------- claims on set_mode
\* C5: set_mode with a mode name outside the mode table of the vehicle's
\* kind returns failure, sends no command, leaves the stored mode unchanged
\* and raises no mode-changed notification, in simulated mode as on a real
\* link.
C5_UnknownModeRejected ==
  [][\A v \in Vehicles : \A mode \in ModeNameSamples :
       (SetMode(v, mode) /\ Upper(mode) \notin DOMAIN ModeTable(VehicleType(v))) =>
         /\ ~last_call'.ok
         /\ UNCHANGED <<telemetry, signals, cmd_sent>>]_vars

\* ------------------------------------------ claims on the receiver loop
\* the step in which worker w reads connection c
PollStep(w, c) ==
  /\ threads[w] = "sweep" /\ rx_todo[w] # <<>>
  /\ Head(rx_todo[w]).conn = c
  /\ rx_read'[w] = rx_read[w] \cup {c}
  /\ rx_todo'[w] # rx_todo[w]

\* C8: an error on one connection never stops the receiver loop and never
\* keeps it from reading the other connections: the worker stays alive while
\* the loop is meant to run, every sweep polls every registered connection,
\* and a message waiting on a working connection is handled when polled.
C8_FaultIsolated ==
  [][\A w \in DOMAIN threads :
       /\ receiver_running' => threads'[w] # "dead"
       /\ (threads[w] = "sweep" /\ threads'[w] = "check") =>
            Range(connections) \subseteq rx_read[w]
       /\ \A c \in Range(connections) :
            (PollStep(w, c) /\ c \notin faulty /\ inbox[c] # <<>>) =>
              /\ handled'[c] = handled[c] + 1
              /\ inbox'[c] = Tail(inbox[c])]_vars

\* bird1's connection (polled first) fails on every read, and a message of
\* chick1.1's connection has been handled all the same
C8_Witness ==
  /\ DOMAIN connections = Vehicles
  /\ connections["bird1"] \in faulty
  /\ connections["chick1.1"] \notin faulty
  /\ handled[connections["chick1.1"]] >= 1
  /\ \E w \in DOMAIN threads : Alive(w) /\ threads[w] = "check"

\* the step in which a heartbeat msg of vehicle v is handled
HeartbeatStep(v, msg) ==
  \E w \in DOMAIN threads :
    /\ v \in DOMAIN connections
    /\ PollStep(w, connections[v])
    /\ Head(rx_todo[w]).vid = v
    /\ connections[v] \notin faulty
    /\ inbox[connections[v]] # <<>>
    /\ Head(inbox[connections[v]]) = msg
    /\ msg.type = "HEARTBEAT" /\ ~msg.bad

\* signals of the same name, vehicle and value
SameSignal(x, y) == x.sig = y.sig /\ x.vid = y.vid /\ x.val = y.val

\* the notifications a step has raised
Raised == SubSeq(signals', Len(signals) + 1, Len(signals'))

\* C10: a heartbeat raises mode_changed (armed_changed) if and only if its
\* decoded mode (armed flag) differs from the value stored just before it;
\* a heartbeat identical to the one before it raises nothing.
C10_NotifyOnlyOnChange ==
  [][\A v \in Vehicles : \A msg \in MsgSamples :
       HeartbeatStep(v, msg) =>
         LET stored == IF v \in DOMAIN telemetry THEN telemetry[v] ELSE DefaultTelemetry
             new_mode == GetModeName(v, msg.custom_mode)
             modeSig == Signal("mode_changed", v, new_mode)
             armedSig == Signal("armed_changed", v, msg.armed)
         IN  /\ Count(Raised, LAMBDA x : SameSignal(x, modeSig))
                  = IF new_mode # stored.mode THEN 1 ELSE 0
             /\ Count(Raised, LAMBDA x : SameSignal(x, armedSig))
                  = IF msg.armed # stored.armed THEN 1 ELSE 0
             /\ \A k \in DOMAIN Raised :
                  SameSignal(Raised[k], modeSig) \/ SameSignal(Raised[k], armedSig)
             /\ (v \in DOMAIN last_hb /\ last_hb[v] = msg) => Raised = <<>>]_vars

\* two identical heartbeats of a vehicle were handled one after the other,
\* the first of which changed the stored mode
C10_Witness ==
  \E v \in DOMAIN last_hb :
    /\ handled[connections[v]] >= 2
    /\ Len(signals) = 1
    /\ signals[1].sig = "mode_changed" /\ signals[1].vid = v
    /\ telemetry[v].mode = signals[1].val
    /\ arrived = 2

\* ------------------------------- claims on the simulated mission store
\* C11: on a simulated vehicle, download_mission(v) right after
\* upload_mission(v, W) returns as many waypoints as W holds, in W's order,
\* each with the lat, lon and alt of the waypoint at its position.
C11_SimRoundTrip ==
  [][\A v \in Vehicles :
       (DownloadCall(v) /\ simulation_mode /\ sim_attrs
          /\ up_pc = "done" /\ up_result = "ok" /\ up_vid = v) =>
         /\ dl_result' = "mission"
         /\ Len(dl_mission') = Len(up_wps)
         /\ \A k \in 1..Len(up_wps) :
              /\ dl_mission'[k].lat8 = up_wps[k].lat8
              /\ dl_mission'[k].lon8 = up_wps[k].lon8
              /\ dl_mission'[k].alt = up_wps[k].alt]_vars

\* a two-waypoint list ending in an RTL at (0, 0) came back from the vehicle
\* it was uploaded to
C11_Witness ==
  /\ simulation_mode /\ sim_attrs
  /\ up_pc = "done" /\ up_result = "ok"
  /\ dl_pc = "done" /\ dl_result = "mission" /\ dl_vid = up_vid
  /\ Len(up_wps) = 2 /\ up_wps[2].type = "RTL" /\ up_wps[1].type = "WAYPOINT"
  /\ Len(dl_mission) = 2

\* ------------------------------------------------ claims on the simulator
MissionUploaded(v) == v \in DOMAIN sim_missions /\ v \in DOMAIN sim_current_wp

Released(v) == v \in DOMAIN chicks_released /\ chicks_released[v]

\* C12: a simulated rotary vehicle that holds an uploaded mission ending in
\* RTL and is commanded to AUTO eventually reaches every waypoint, turns to
\* RTL and ends in LOITER at home.
C12_AutoMissionEndsInLoiter ==
  (/\ telemetry[AutoVehicle].mode = "AUTO"
   /\ MissionUploaded(AutoVehicle) /\ sim_current_wp[AutoVehicle] = 0
   /\ Released(AutoVehicle))
  ~> (/\ telemetry[AutoVehicle].mode = "LOITER"
      /\ sim_current_wp[AutoVehicle] = Len(sim_missions[AutoVehicle]) - 1)

IsModeChanged(x) == x.sig = "mode_changed"

\* the squared distance of v to its goto target, in this state and the next
GotoDist2(v) ==
  Dist2(sim_nav[v].x, sim_nav[v].y, sim_goto_target[v].x, sim_goto_target[v].y)

GotoDist2Next(v) ==
  Dist2(sim_nav'[v].x, sim_nav'[v].y, sim_goto_target[v].x, sim_goto_target[v].y)

\* C13: while a simulated vehicle in GUIDED flies to a goto target, no tick
\* increases its horizontal distance to the target; the tick that ends the
\* flight sets the mode to LOITER, clears the target and raises one
\* mode_changed notification.
C13_GotoDistanceShrinks ==
  [][\A v \in Vehicles :
       (/\ telemetry[v].mode = "GUIDED" /\ v \in DOMAIN sim_goto_target
        /\ sim_nav'[v] # sim_nav[v])
       => /\ GotoDist2Next(v) <= GotoDist2(v)
          /\ telemetry'[v].mode # "GUIDED" =>
               /\ telemetry'[v].mode = "LOITER"
               /\ v \notin DOMAIN sim_goto_target'
               /\ Count(signals', IsModeChanged) = Count(signals, IsModeChanged) + 1]_vars

\* C14: the ground speed the simulator stores for a fixed-wing vehicle is
\* never below the minimum speed of its performance profile, in any mode and
\* whatever speed a mission waypoint asks for.
C14_PlaneKeepsMinSpeed ==
  \A v \in DOMAIN sim_nav :
    ConfigType(v) = "plane" => sim_nav[v].groundspeed >= VehiclePerf(v).min_speed_ms

\* the plane flies in AUTO to a waypoint that asks for 5 m/s, at 12 m/s
C14_Witness ==
  /\ FirstBird \in DOMAIN sim_missions
  /\ telemetry[FirstBird].mode = "AUTO"
  /\ sim_current_wp[FirstBird] = 0
  /\ WpSpeed(sim_missions[FirstBird][1]) = 5
  /\ sim_nav[FirstBird].x # 0
  /\ sim_nav[FirstBird].groundspeed = VehiclePerf(FirstBird).min_speed_ms

\* the size of the heading change of v in a step, in heading units
HeadingChange(v) ==
  Abs(((sim_nav'[v].heading - sim_nav[v].heading + 120) % 240) - 120)

\* C15: from one tick to the next the heading of a fixed-wing vehicle changes
\* by at most its turn rate limit times the tick interval, in every mode and
\* across every mode transition.
C15_PlaneTurnLimited ==
  [][\A v \in DOMAIN sim_nav :
       ConfigType(v) = "plane" => HeadingChange(v) <= VehiclePerf(v).turn_per_tick]_vars

\* C16: in every tick with swarm tracking active, a released follower moves
\* towards the formation position computed in that tick from its carrier's
\* telemetry and the formation configuration, whatever its mode.
C16_ReleasedFollowerTracks ==
  [][SimTick =>
       \A v \in Chicks :
         (swarm_active /\ Released(v)) =>
           LET target == FormationPosition(sim_nav'[Carrier(v)], ChickIndex(v), swarm_config)
               f == FlyTowards(sim_nav[v].x, sim_nav[v].y, target.x, target.y,
                               VehiclePerf(v).swarm_track_speed_ms, FALSE,
                               sim_nav[v].heading, v)
           IN  /\ sim_nav'[v].x = f.x
               /\ sim_nav'[v].y = f.y
               /\ Abs(sim_nav'[v].alt - target.alt) <= 10]_vars

\* the commands a step writes to the transports
Issued == SubSeq(cmd_sent', Len(cmd_sent) + 1, Len(cmd_sent'))

\* C17: for any vehicle connected over a link, fixed-wing or rotary, quick_fly
\* returns having issued, in this order, set-mode GUIDED, force-arm and
\* takeoff, whatever the GPS-fix wait and the armed verification returned.
C17_QuickFlyIssuesAllStages ==
  [][\A v \in OpsVehicles : \A altitude \in AltSamples : \A gps_ready, armed \in BOOLEAN :
       (/\ QuickFly(v, altitude, gps_ready, armed)
        /\ ~simulation_mode
        /\ v \in DOMAIN connections) =>
         /\ Len(Issued) = 3
         /\ Issued[1] = [vid |-> v, cmd |-> "SET_MODE",
                         arg |-> ModeTable(VehicleType(v)).GUIDED]
         /\ Issued[2] = [vid |-> v, cmd |-> "ARM", arg |-> 21196]
         /\ Issued[3] = [vid |-> v, cmd |-> "TAKEOFF", arg |-> altitude]]_vars

\* v is reached over a connection opened by connect_mlrs or connect_backup
OnHardwareLink(v) ==
  /\ v \in DOMAIN connections
  /\ connections[v] \in {mlrs_port, backup_connection}

\* C18: on a connection opened by connect_mlrs or connect_backup a forced arm
\* (param2 21196) is sent only by a call of arm(..., force=True) itself, never
\* as a step inside another operation such as quick_fly.
C18_ForceArmOnlyByCaller ==
  [][\A k \in 1..Len(Issued) :
       (/\ Issued[k].cmd = "ARM"
        /\ Issued[k].arg = 21196
        /\ OnHardwareLink(Issued[k].vid)) => last_call'.op = "arm"]_vars

\* C19: change_altitude never changes a flight mode: while simulating, every
\* stored mode is the same before and after the call and no notification is
\* raised; on a link nothing is sent but the altitude command.
C19_ChangeAltitudeKeepsMode ==
  [][\A v \in OpsVehicles : \A altitude \in AltSamples :
       ChangeAltitude(v, altitude) =>
         /\ DOMAIN telemetry' = DOMAIN telemetry
         /\ \A w \in DOMAIN telemetry : telemetry'[w].mode = telemetry[w].mode
         /\ signals' = signals
         /\ Issued \in {<<>>, <<[vid |-> v, cmd |-> "CHANGE_ALTITUDE", arg |-> altitude]>>}
         /\ simulation_mode => Issued = <<>>]_vars

\* the altitude command went out on a link after a mode command had
C19_Witness ==
  /\ last_call = [op |-> "change_altitude", ok |-> TRUE]
  /\ ~simulation_mode
  /\ Len(cmd_sent) > 1
  /\ cmd_sent[1].cmd = "SET_MODE"
  /\ Last(cmd_sent).cmd = "CHANGE_ALTITUDE"

\* the vehicles the manager knows: a connection or a telemetry record
KnownVehicles == DOMAIN connections \cup DOMAIN telemetry

\* C20: rtl_all commands return-to-launch exactly once for every known vehicle,
\* going on after a failure, and returns success exactly when every one of
\* the commands succeeded.
C20_RtlAllCoversKnown ==
  [][RtlAll =>
       /\ \A v \in KnownVehicles :
            Cardinality({k \in DOMAIN last_call'.tried : last_call'.tried[k] = v}) = 1
       /\ \A k \in DOMAIN last_call'.tried : last_call'.tried[k] \in KnownVehicles
       /\ last_call'.ok = (\A v \in KnownVehicles : SetModeEff(CmdState, v, "RTL").ok)]_vars

\* C21: a first heartbeat of a kind other than the configured one never makes
\* connect_sitl refuse the connection: the endpoint is registered as for a
\* matching kind, and the kind stored, used to decode the heartbeat's mode and
\* to encode later mode commands, is the one the heartbeat reports.
C21_KindMismatchAdvisory ==
  [][/\ \A cfg \in SitlDicts : \A hb \in [cfg -> HbOutcomes] :
          ConnectSitl(cfg, hb) =>
            \A v \in cfg :
              hb[v] # "none" =>
                /\ last_call'.ok
                /\ v \in DOMAIN connections'
                /\ connections'[v] = NewTransport(CfgIndex(cfg, v))
                /\ transports'[connections'[v]] = "open"
                /\ conn_shown'[v]
                /\ receiver_running'
                /\ vehicle_types'[v] = hb[v]
                /\ telemetry'[v].mode = ModeNameOfType(hb[v], FirstHbMode)
     /\ \A v \in OpsVehicles : \A mode \in KindModes :
          (SetMode(v, mode) /\ v \in DOMAIN vehicle_types /\ Issued # <<>>) =>
            /\ Upper(mode) \in DOMAIN ModeTable(vehicle_types[v])
            /\ Issued = <<[vid |-> v, cmd |-> "SET_MODE",
                           arg |-> ModeTable(vehicle_types[v])[Upper(mode)]]>>]_vars

\* bird1, configured as a plane, answered as a copter, was registered, and a
\* mode command went out to it in the copter's encoding
C21_Witness ==
  /\ FirstBird \in DOMAIN vehicle_types
  /\ vehicle_types[FirstBird] = "copter"
  /\ ConfigType(FirstBird) = "plane"
  /\ FirstBird \in DOMAIN connections
  /\ telemetry[FirstBird].mode = "LOITER"
  /\ \E k \in 1..Len(cmd_sent) :
       cmd_sent[k] = [vid |-> FirstBird, cmd |-> "SET_MODE", arg |-> CopterModes.AUTO]

\* C22: every command operation (set_mode, arm, goto, takeoff,
\* change_altitude, upload_mission, download_mission), called in any state of
\* the manager, also before start_simulation and after stop_simulation,
\* returns a success or failure result and never raises to the caller.
C22_CommandsNeverRaise ==
  [][/\ \A target \in GotoSamples :
          Goto(FirstBird, target) => ~GotoEff(CmdState, FirstBird, target).raised
     /\ \A altitude \in AltSamples :
          /\ Takeoff(FirstBird, altitude) =>
               ~TakeoffEff(CmdState, FirstBird, altitude).raised
          /\ ChangeAltitude(FirstBird, altitude) =>
               ~ChangeAltitudeEff(CmdState, FirstBird, altitude).raised
     /\ Arm(FirstBird, TRUE, FALSE) => ~ArmEff(CmdState, FirstBird, TRUE, FALSE).raised
     /\ SetMode(FirstBird, "AUTO") => ~SetModeEff(CmdState, FirstBird, "AUTO").raised
     /\ up_result' # "raise"
     /\ dl_result' # "raise"]_vars

\* the caller's thread is inside a blocking read of transport t
CallerWaitsOn(t) ==
  /\ up_pc = "wait_req"
  /\ up_vid \in DOMAIN connections
  /\ connections[up_vid] = t

\* C23: only the receiver thread reads from a transport, and a message that a
\* blocking operation of the caller waits for (here the item request of
\* upload_mission) is never taken by the receiver loop.
C23_OnlyReceiverReads ==
  [][\A t \in DOMAIN inbox :
       /\ Len(inbox'[t]) < Len(inbox[t]) => \E w \in DOMAIN threads : RecvPoll(w)
       /\ (/\ CallerWaitsOn(t)
           /\ inbox[t] # <<>>
           /\ Head(inbox[t]).type = "MISSION_REQUEST") =>
            ~(\E w \in DOMAIN threads : RecvPoll(w) /\ inbox'[t] = Tail(inbox[t]))]_vars

\* C24: every connect call that succeeds has requested periodic data streams
\* on the transport before registering it, so no registered transport (an
\* entry of the connections, the MLRS bus, the backup link) is one on which
\* data streams were never requested.
C24_StreamsRequestedBeforeRegistered ==
  RegisteredTransports \subseteq streams

\* the altitude gained by v in a step, in decimetres
Climb(v) == sim_nav'[v].alt - sim_nav[v].alt

\* C25: in every tick and every mode, formation tracking included, the
\* altitude of a simulated vehicle changes by at most climb_rate times the
\* tick interval upwards and descent_rate times the tick interval downwards,
\* the realism jitter aside.
C25_AltitudeRateLimited ==
  [][SimTick =>
       \A v \in DOMAIN sim_nav :
         /\ Climb(v) <= VehiclePerf(v).climb_rate + AltJitter
         /\ -Climb(v) <= VehiclePerf(v).descent_rate + AltJitter]_vars

\* the current waypoint index of v (0 without a mission)
CurrentWp(cur, v) == IF v \in DOMAIN cur THEN cur[v] ELSE 0

\* the places in the notifications of a step where v raised `sig`
RaisedBy(sig, v) == {k \in DOMAIN Raised : Raised[k].sig = sig /\ Raised[k].vid = v}

\* C26: while simulating, the current waypoint index of a vehicle goes down
\* only when a mission is uploaded to it; a tick leaves it or, on arrival,
\* advances it by one, and raises waypoint_reached for exactly the waypoint
\* arrived at, once; the launch trigger is raised once, in the tick of arrival
\* at a LAUNCH_CHICK waypoint, for its chick, and in no other step.
C26_WaypointProgress ==
  [][\A v \in Vehicles :
       LET i == CurrentWp(sim_current_wp, v)
           j == CurrentWp(sim_current_wp', v)
           reached == RaisedBy("waypoint_reached", v)
           launched == RaisedBy("chick_launch_triggered", v)
       IN  /\ j < i => \E wps \in LaunchFlights : UploadCall(v, wps)
           /\ j > i => SimTick /\ j = i + 1 /\ telemetry[v].mode = "AUTO"
           /\ Cardinality(reached) = (IF j > i THEN 1 ELSE 0)
           /\ \A k \in reached : Raised[k].val = i
           /\ Cardinality(launched) =
                (IF j > i /\ sim_missions[v][i + 1].type = "LAUNCH_CHICK" THEN 1 ELSE 0)
           /\ \A k \in launched : Raised[k].val = sim_missions[v][i + 1].chick_id]_vars

\* the bird has passed a first waypoint and the LAUNCH_CHICK waypoint after
\* it: two waypoint_reached in index order, then the launch trigger
C26_Witness ==
  /\ FirstBird \in DOMAIN sim_current_wp
  /\ sim_current_wp[FirstBird] = 2
  /\ Len(signals) >= 3
  /\ \E k \in 1..(Len(signals) - 2) :
       /\ signals[k].sig = "waypoint_reached" /\ signals[k].val = 0
       /\ signals[k + 1].sig = "waypoint_reached" /\ signals[k + 1].val = 1
       /\ signals[k + 2].sig = "chick_launch_triggered"
       /\ signals[k + 2].val = "chick1.1"

\* C27: the items built for an upload are the home item and then, in list
\* order, at least one item for each waypoint, whatever its kind; so the item
\* count announced is at least the number of waypoints plus one.
C27_NoWaypointDropped ==
  \A k \in DOMAIN up_tx :
    up_tx[k].t = "COUNT" =>
      /\ \A i \in DOMAIN up_wps : ItemsOfWaypoint(up_wps[i]) # << >>
      /\ up_items = BuildMissionItems(up_wps)
      /\ up_tx[k].n >= Len(up_wps) + 1

\* C28: simulated and real operation exclude each other: whenever a real
\* transport is registered, the manager is not in simulation mode and the
\* simulation timer is stopped.
C28_SimulationExcludesLinks ==
  RegisteredTransports # {} => ~simulation_mode /\ ~sim_timer_active

\* C29: no chick is recorded as both attached and released (the tick skips
\* the motion of a chick recorded as attached).
C29_AttachedOrReleased ==
  \A c \in Chicks :
    ~ /\ c \in DOMAIN chicks_attached /\ chicks_attached[c]
      /\ c \in DOMAIN chicks_released /\ chicks_released[c]

\* C30: a simulated vehicle in GUIDED mode that was given a goto and no
\* further command eventually arrives: its mode becomes LOITER with the
\* loiter center at the goto target.
C30_GotoArrives ==
  \A target \in LegTargets :
    (/\ telemetry[GotoVehicle].mode = "GUIDED"
     /\ GotoVehicle \in DOMAIN sim_goto_target
     /\ sim_goto_target[GotoVehicle] = target)
    ~> (/\ telemetry[GotoVehicle].mode = "LOITER"
        /\ sim_loiter_center[GotoVehicle] = <<target.x, target.y>>)

====
